---- MODULE Spec2Model ----
(***************************************************************************)
(* Model of examples/MQTTBlinds/MQTTBlinds.ino: the AM43 blind proxy.      *)
(*                                                                         *)
(* Three execution contexts touch the program state:                       *)
(*   "driver"  the Arduino loop() task (driver tick, bus servicing,        *)
(*             mqtt_callback, scan start, OTA handling),                   *)
(*   "scan"    the BLE scan context (onResult, bleScanComplete),           *)
(*   "notify"  the BLE transport context (notifyCallback and the session's *)
(*             disconnect report).                                         *)
(* A handler is cut into steps where another context can run in between   *)
(* with an effect of its own: after each call that blocks (connectToServer,*)
(* update(), the connect, publish, subscribe, loop() and disconnect()      *)
(* calls on a bus client, the delays, the take of the registry semaphore   *)
(* before an erase), between the parts of a pass of loop() that take the   *)
(* registry semaphore separately, and between the lock regions of onResult *)
(* and of notifyCallback.  What a step reads (a flag, the mqtt pointer,    *)
(* millis()) it reads in the state the step starts from.  A step that      *)
(* takes the semaphore waits for it to be free.                            *)
(*                                                                         *)
(* Strings the code takes apart (topics, payloads) are sequences: a topic  *)
(* is a sequence of tokens with "/" as its own token, a payload a sequence *)
(* of one-character strings.                                               *)
(***************************************************************************)
EXTENDS Integers, Sequences, FiniteSets, TLC

\* ------------------------------------------------------------------ bounds
\* Most client objects one boot may allocate (line 241 and 244).
MaxAlloc == 2

\* ------------------------------------------------------- program constants
TickInterval == 500
ScanInterval == 60000
MqttBackoff == 5000
ScanDuration == 10000
\* delay(1000) in setup_wifi(), line 295.
SetupDelay == 1000
\* Line 381: how long the network may be down before setup_wifi() is run
\* again.
WifiDownLimit == 20000
\* Stands for UINT_MAX, which is what -1 becomes as an unsigned int; the
\* model's integers end at 2^31 - 1, and the only use compares it with
\* string lengths.
UINT_MAX == 2147483647

\* --------------------------------------------------------- bounded inputs
\* Bluetooth addresses in range, as BLEAddress::toString() prints them.
Addrs == {"02:4d", "02:69"}
\* The advertisements in range, as <<name, address>>: one device is seen
\* with and without its name, the other always with it.
Ads == {<<"", "02:69">>, <<"AM43", "02:69">>, <<"AM43", "02:4d">>}
\* The order std::string's operator< gives them inside the registry key.
AddrRank(a) == IF a = "02:4d" THEN 1 ELSE 2
NameRank(n) == IF n = "" THEN 1 ELSE 2
\* The values DEVICE_ALLOWLIST of config.h is drawn from.
AllowLists == {<<>>, <<"02:69">>}
\* The events of the network stack WiFiEvent is called with.
WifiEvents == {"SYSTEM_EVENT_STA_GOT_IP", "SYSTEM_EVENT_STA_DISCONNECTED"}

\* ----------------------------------------------------------- the registry
\* BLEAdvertisedDevice::toString(): "Name: <name>, Address: <address>...",
\* the text onResult uses as the registry key.  It varies with the name the
\* advertisement carries as well as with the address.
toString(name, addr) == <<name, addr>>

KeyLess(k1, k2) ==
  \/ NameRank(k1[1]) < NameRank(k2[1])
  \/ k1[1] = k2[1] /\ AddrRank(k1[2]) < AddrRank(k2[2])

\* The registry is a std::map from key to MyAM43Callbacks*, held as its set
\* of entries <<key, pointer>>; a pointer is an index into heap.
\* Iteration order of a std::map<std::string, ...>: ascending key.
RECURSIVE MapOrder(_)
MapOrder(m) ==
  IF m = {} THEN <<>>
  ELSE LET e == CHOOSE x \in m : \A y \in m \ {x} : ~KeyLess(y[1], x[1])
       IN <<e>> \o MapOrder(m \ {e})

\* std::map::insert: a key that is present keeps its entry.
MapInsert(m, k, v) ==
  IF \E e \in m : e[1] = k THEN m ELSE m \cup {<<k, v>>}

\* std::map::erase by key.
MapErase(m, k) == {e \in m : e[1] # k}

\* ---------------------------------------------------------------- strings
\* String::indexOf(ch, fromIndex): 0-based, -1 when absent.
RECURSIVE indexOf(_, _, _)
indexOf(s, ch, from) ==
  IF from >= Len(s) THEN -1
  ELSE IF s[from + 1] = ch THEN from
  ELSE indexOf(s, ch, from + 1)

\* An int passed where the parameter is unsigned int.
ToUnsigned(i) == IF i < 0 THEN UINT_MAX + (i + 1) ELSE i

\* String::substring(left, right): the arguments are unsigned, swapped when
\* out of order and clipped to the length.
substring(s, left, right) ==
  LET l0 == ToUnsigned(left)
      r0 == ToUnsigned(right)
      l == IF l0 > r0 THEN r0 ELSE l0
      r == IF l0 > r0 THEN l0 ELSE r0
  IN IF l >= Len(s) THEN <<>>
     ELSE SubSeq(s, l + 1, IF r > Len(s) THEN Len(s) ELSE r)

\* String::substring(left): to the end of the string.
substringFrom(s, left) == substring(s, left, Len(s))

UpperChars == <<"A", "B", "C", "D", "E", "F", "G", "H", "I", "J", "K", "L", "M",
               "N", "O", "P", "Q", "R", "S", "T", "U", "V", "W", "X", "Y", "Z">>
LowerChars == <<"a", "b", "c", "d", "e", "f", "g", "h", "i", "j", "k", "l", "m",
               "n", "o", "p", "q", "r", "s", "t", "u", "v", "w", "x", "y", "z">>

\* tolower() of one character.
toLowerChar(c) ==
  IF \E i \in 1..Len(UpperChars) : UpperChars[i] = c
  THEN LowerChars[CHOOSE i \in 1..Len(UpperChars) : UpperChars[i] = c]
  ELSE c

\* String::toLowerCase().
toLowerCase(s) == [i \in 1..Len(s) |-> toLowerChar(s[i])]

Digits == <<"0", "1", "2", "3", "4", "5", "6", "7", "8", "9">>
IsDigit(c) == \E i \in 1..10 : Digits[i] = c
DigitVal(c) == (CHOOSE i \in 1..10 : Digits[i] = c) - 1

\* The largest long of the ESP32 build (32 bits).
LONG_MAX == 2147483647

\* The digits of atol(): value of the longest run of digits from position
\* i, or -1 once it is past LONG_MAX.
RECURSIVE atolDigits(_, _, _)
atolDigits(s, i, acc) ==
  IF i > Len(s) \/ ~IsDigit(s[i]) THEN acc
  ELSE IF acc < 0 \/ acc > (LONG_MAX - DigitVal(s[i])) \div 10
       THEN atolDigits(s, i + 1, 0 - 1)
  ELSE atolDigits(s, i + 1, acc * 10 + DigitVal(s[i]))

\* The characters isspace() accepts: blank, \t, \n, \v, \f and \r.  The
\* vertical tab has no escape of its own here and is written "\\v".
SpaceChars == {" ", "\t", "\n", "\\v", "\f", "\r"}

\* The white space atol() skips before the number.
RECURSIVE skipSpace(_, _)
skipSpace(s, i) ==
  IF i <= Len(s) /\ s[i] \in SpaceChars THEN skipSpace(s, i + 1) ELSE i

\* String::toInt() is atol(): leading white space, an optional sign, then
\* digits up to the first other character; 0 when there is no digit, and
\* the nearest long when the digits are out of range.
toInt(s) ==
  LET i == skipSpace(s, 1)
      neg == i <= Len(s) /\ s[i] = "-"
      pos == i <= Len(s) /\ s[i] = "+"
      mag == atolDigits(s, IF neg \/ pos THEN i + 1 ELSE i, 0)
  IN IF neg THEN (IF mag < 0 THEN 0 - LONG_MAX - 1 ELSE 0 - mag)
     ELSE IF mag < 0 THEN LONG_MAX ELSE mag

\* String(n) for n >= 0: the decimal digits.
RECURSIVE DecString(_)
DecString(n) ==
  IF n < 10 THEN <<Digits[n + 1]>>
  ELSE DecString(n \div 10) \o <<Digits[(n % 10) + 1]>>

\* ------------------------------------------------------------- the clock
\* millis() and the time stamps of the program are 32-bit unsigned numbers
\* (unsigned long and unsigned int of the ESP32 build).  A 32-bit unsigned
\* value v is held as the integer with the same 32 bits in two's
\* complement: v itself below 2^31, v - 2^32 from there up.  So 0 is the
\* instant millis() wraps and -1 the millisecond before it.
INT_MAX == 2147483647
INT_MIN == 0 - INT_MAX - 1

\* v < w as unsigned numbers.
less32(v, w) == IF (v < 0) = (w < 0) THEN v < w ELSE w < 0

\* v + w modulo 2^32.
plus32(v, w) ==
  IF v >= 0 /\ w >= 0
  THEN (IF v > INT_MAX - w THEN (v - INT_MAX) + (w - INT_MAX) - 2 ELSE v + w)
  ELSE IF v < 0 /\ w < 0
  THEN (IF v >= INT_MIN - w THEN v + w
        ELSE (v + INT_MAX + 1) + (w + INT_MAX + 1))
  ELSE v + w

\* 0 - w modulo 2^32.
negate32(w) == IF w = INT_MIN THEN INT_MIN ELSE 0 - w

\* v - w modulo 2^32.
minus32(v, w) == plus32(v, negate32(w))

\* The time e that has really passed since some event, after d more
\* milliseconds (d a 32-bit unsigned number), kept up to cap: from cap on
\* it is cap.
Elapsed(e, d, cap) == IF d < 0 \/ d >= cap - e THEN cap ELSE e + d

\* millis() + 5000, lines 117 and 322, at time m.
BackoffStamp(m) == plus32(m, MqttBackoff)

\* ------------------------------------------------------- client objects
\* What onResult allocates for a new device: the AM43Client (m_Device,
\* m_Name, m_DoConnect and the two connection flags its constructor clears)
\* and its MyAM43Callbacks (mqtt, nextMqttAttempt), one heap cell for both.
\* mqtt is a pointer into pubsubs, 0 for nullptr.
NewClient(name, addr) ==
  [addr |-> addr, m_Name |-> name, m_DoConnect |-> TRUE,
   m_Connected |-> FALSE, m_Disconnected |-> FALSE,
   mqtt |-> 0, nextMqttAttempt |-> 0]

\* A PubSubClient as onConnect creates it for heap cell rid; offline and
\* disconnects count the retained "offline" publishes and the disconnect()
\* calls it has seen, subs how many of the subscriptions of lines 121-122
\* its connection has made (the first is to set, the second to
\* set_position); a connection that ends takes its subscriptions with it.
NewPubSub(rid) ==
  [owner |-> rid, connected |-> FALSE, subs |-> 0, offline |-> 0,
   disconnects |-> 0]

\* The connection of a PubSubClient ends.
Dropped(pb) == [pb EXCEPT !.connected = FALSE, !.subs = 0]

MQTT_TOPIC_PREFIX == "am43"

\* MyAM43Callbacks::topic(t), without AM43_USE_NAME_FOR_TOPIC.
topic(c, t) == <<MQTT_TOPIC_PREFIX, "/", c.addr, "/", t>>

\* --------------------------------------------------------- command router
\* Lines 156-160 of mqtt_callback: the address and the command of a topic.
topicAddress(top) ==
  LET i1 == indexOf(top, "/", 0)
      i2 == indexOf(top, "/", ToUnsigned(i1 + 1))
  IN substring(top, i1 + 1, i2)

topicCommand(top) ==
  LET i1 == indexOf(top, "/", 0)
      i2 == indexOf(top, "/", ToUnsigned(i1 + 1))
  IN substringFrom(top, i2 + 1)

\* Lines 178-186 for one matching client: the session calls made on it.
sessionCallsCaseSensitive(rid, command, payload) ==
  (IF command = <<"set">> /\ payload = <<"o", "p", "e", "n">>
   THEN << <<rid, "open", 0>> >> ELSE <<>>)
  \o (IF command = <<"set">> /\ payload = <<"c", "l", "o", "s", "e">>
      THEN << <<rid, "close", 0>> >> ELSE <<>>)
  \o (IF command = <<"set">> /\ payload = <<"s", "t", "o", "p">>
      THEN << <<rid, "stop", 0>> >> ELSE <<>>)
  \o (IF command = <<"set_position">>
      THEN << <<rid, "setPosition", toInt(payload)>> >> ELSE <<>>)
sessionCalls(rid, command, payload) ==
  LET low == toLowerCase(payload)
  IN (IF command = <<"set">> /\ low = <<"o", "p", "e", "n">>
      THEN << <<rid, "open", 0>> >> ELSE <<>>)
     \o (IF command = <<"set">> /\ low = <<"c", "l", "o", "s", "e">>
         THEN << <<rid, "close", 0>> >> ELSE <<>>)
     \o (IF command = <<"set">> /\ low = <<"s", "t", "o", "p">>
         THEN << <<rid, "stop", 0>> >> ELSE <<>>)
     \o (IF command = <<"set_position">>
         THEN << <<rid, "setPosition", toInt(payload)>> >> ELSE <<>>)

\* Line 176: does client c take a command sent to this address?
addressMatchesAny(c, address) == TRUE
addressMatches(c, address) == <<c.addr>> = address \/ address = <<"all">>

\* Lines 171-188: the loop over the snapshot cls, from entry i on.
RECURSIVE dispatch(_, _, _, _, _, _)
dispatch(h, cls, i, address, command, payload) ==
  IF i > Len(cls) THEN <<>>
  ELSE (IF addressMatches(h[cls[i][2]], address)
        THEN sessionCalls(cls[i][2], command, payload)
        ELSE <<>>)
       \o dispatch(h, cls, i + 1, address, command, payload)

\* An inbound message; NoMsg when none is waiting.
NoMsg == [topic |-> <<>>, payload |-> <<>>]
Msgs(top, payloads) == {[topic |-> top, payload |-> pl] : pl \in payloads}

\* A log entry for each session call of a sequence.
CallLog(calls) == [i \in 1..Len(calls) |-> <<"call", calls[i]>>]

\* Can the message msg come in on bus client pb?  Its connection is up and
\* has subscribed to the topic's command.
Accepts(pb, msg) ==
  /\ pb.connected
  /\ \/ topicCommand(msg.topic) = <<"set">> /\ pb.subs >= 1
     \/ topicCommand(msg.topic) = <<"set_position">> /\ pb.subs >= 2

\* mqtt_callback run from a device's bus client, whose subscriptions (lines
\* 121-122) are the set and set_position topics of its record: getClients()
\* takes and gives the semaphore, then the dispatch loop makes the session
\* calls.  reg is the registry in iteration order; the result is the log of
\* what was done on behalf of heap cell rid.
deviceCallback(h, reg, rid, msg) ==
  IF msg = NoMsg THEN <<>>
  ELSE << <<"take", rid>>, <<"give", rid>> >>
       \o CallLog(dispatch(h, reg, 1, topicAddress(msg.topic),
                           topicCommand(msg.topic), msg.payload))

\* MyAM43Callbacks::onDisconnect on heap cell rid, lines 95-104, in four
\* parts.  Lines 97-99: the test of the bus client and, when it is there
\* and connected, the retained publish of available=offline.
onDisconnectPublish(h, p, rid) ==
  LET b == h[rid].mqtt
      live == b # 0 /\ p[b].connected
  IN [live |-> live,
      pubsubs |-> IF live THEN [p EXCEPT ![b].offline = @ + 1] ELSE p]

\* Line 100 after the publish, mqtt being still set: loop(), which hands
\* the message msg waiting for the bus client to mqtt_callback (reg is the
\* registry in iteration order).  The result is the log of what was done,
\* in order.
onDisconnectLoop(h, reg, rid, msg) ==
  << <<"loop", rid>> >> \o deviceCallback(h, reg, rid, msg)

\* Line 101, mqtt pointing to bus client b: disconnect(), which ends the
\* connection.
onDisconnectClose(p, b) ==
  [p EXCEPT ![b] = [Dropped(@) EXCEPT !.disconnects = @ + 1]]

\* Line 103, after line 101 or when the test of line 97 fails: the pointer
\* is cleared.
onDisconnectKeep(h, rid) == h
onDisconnectClear(h, rid) == [h EXCEPT ![rid].mqtt = 0]
\* ------------------------------------------------------------------ state
VARIABLES
  allowList,       \* std::vector<BLEAddress> allowList, fixed by setup()
  allClients,      \* the registry: set of entries <<key, heap index>>
  heap,            \* the client objects allocated since boot, never freed
  pubsubs,         \* the PubSubClient objects allocated by onConnect
  clientListSem,   \* "free", or the context holding the semaphore
  scanning,        \* the scan-in-progress flag of line 50
  scanActive,      \* whether the BLE stack is really scanning
  millis,          \* what millis() returns
  lastScan,        \* unsigned long lastScan
  otaUpdating,     \* bool otaUpdating
  lastAM43update,  \* unsigned long lastAM43update
  pubSubConnected, \* pubSubClient.connected()
  pubSubSubs,      \* how many of the subscriptions of lines 313-315 the
                   \* connection of pubSubClient has made
  nextMqttAttempt, \* the global nextMqttAttempt of line 303
  wifiDownSince,   \* unsigned int wifiDownSince of line 275
  dpc,             \* where loop() stands
  dcls,            \* the snapshot cls of loop() or of its mqtt_callback
  di,              \* the position in cls
  removeList,      \* loop()'s removeList
  delayStart,      \* millis() when the delay() loop() waits in began
  scanCb,          \* where a running onResult stands, and what it inserts
  notifyCb,        \* the heap cell a running notifyCallback has found
  discCb,          \* the heap cell whose onDisconnect the transport
                   \* context is inside, past its publish
  discPc,          \* where that onDisconnect stands
  tickDisconnected,\* the records that were Disconnected when the tick began
  tickConnects,    \* the connectToServer calls made so far in this tick
  sinceDriverScan, \* the time since loop() last started a scan (line 415),
                   \* up to ScanInterval
  connectedSinceScan, \* onConnect has run since that scan start
  sinceRefused,    \* the time since the broker last refused a connect, up
                   \* to MqttBackoff: at 0 for the global bus client, at
                   \* rid for the one of heap cell rid
  acc,             \* who touched which shared variable without the lock
  obs              \* what the last step did (inputs, calls made)

vars == <<allowList, allClients, heap, pubsubs, clientListSem, scanning,
          scanActive, millis, lastScan, otaUpdating, lastAM43update,
          pubSubConnected, pubSubSubs, nextMqttAttempt, wifiDownSince, dpc,
          dcls, di, removeList, delayStart, scanCb, notifyCb, discCb, discPc,
          tickDisconnected, tickConnects, sinceDriverScan,
          connectedSinceScan, sinceRefused, acc, obs>>

driverLocals == <<dpc, dcls, di, removeList, delayStart>>
\* The global bus client.
globalBus == <<pubSubConnected, pubSubSubs>>
\* The onDisconnect the transport context is inside.
discVars == <<discCb, discPc>>
tickGhosts == <<tickDisconnected, tickConnects>>
scanGhosts == <<sinceDriverScan, connectedSinceScan>>
\* The clock, and the time stamps only loop() changes.
timeVars == <<millis, lastAM43update, nextMqttAttempt, wifiDownSince,
              sinceRefused>>

NoObs == [op |-> "none"]

\* Two recorded accesses conflict: the same variable, two contexts, at least
\* one of them a write.
Conflict(a) ==
  \E x \in a : \E y \in a :
    x[1] = y[1] /\ x[2] # y[2] /\ (x[3] = "w" \/ y[3] = "w")

\* What acc holds once two accesses have conflicted.
Raced == {<<"raced", "raced", "w">>}

\* Context c reads ("r") or writes ("w") shared variable v while it does
\* not hold clientListSem.  acc keeps, per variable and context, the
\* strongest access seen since boot; once two of them conflict it keeps
\* only that.
Touch(a, v, c, mode) ==
  LET b == IF mode = "w" THEN (a \ {<<v, c, "r">>}) \cup {<<v, c, "w">>}
           ELSE IF <<v, c, "w">> \in a THEN a
           ELSE a \cup {<<v, c, "r">>}
  IN IF a = Raced \/ Conflict(b) THEN Raced ELSE b

\* FreeRTOS::Semaphore::give().
giveKept(holder) == holder
give(holder) == "free"

\* No onResult is running.
ScanIdle == [pc |-> "idle"]

\* The program has not been stopped by a fault.
Alive == dpc # "halted"

\* millis() - t.
Since(t) == minus32(millis, t)

\* No connect has been refused yet.
NeverRefused == [k \in 0..MaxAlloc |-> MqttBackoff]

\* The state after setup(), lines 329-374: millis() has started from 0 and
\* setup_wifi() has waited SetupDelay, the time stamps have their initial
\* 0, the allow list is parsed, the first scan is started by initBLEScan(),
\* nothing is discovered yet.
Boot ==
  /\ allClients = {}
  /\ heap = <<>>
  /\ pubsubs = <<>>
  /\ clientListSem = "free"
  /\ scanning = TRUE
  /\ scanActive = TRUE
  /\ millis = SetupDelay
  /\ lastScan = 0
  /\ otaUpdating = FALSE
  /\ lastAM43update = 0
  /\ pubSubConnected = FALSE
  /\ pubSubSubs = 0
  /\ nextMqttAttempt = 0
  /\ wifiDownSince = 0
  /\ dpc = "top"
  /\ dcls = <<>>
  /\ di = 1
  /\ removeList = <<>>
  /\ delayStart = 0
  /\ scanCb = ScanIdle
  /\ notifyCb = 0
  /\ discCb = 0
  /\ discPc = "idle"
  /\ tickDisconnected = {}
  /\ tickConnects = 0
  /\ sinceDriverScan = ScanInterval
  /\ connectedSinceScan = FALSE
  /\ sinceRefused = NeverRefused
  /\ acc = {}
  /\ obs = NoObs

Init == allowList \in AllowLists /\ Boot

\* ------------------------------------------------------------ environment
\* Time passes: millis() grows by d, a 32-bit unsigned number, and wraps
\* at 2^32.  A scan runs for ScanDuration at most (line 271), so it is over
\* before a longer stretch of time has passed.
Advance(d) ==
  /\ Alive
  /\ scanActive => (0 <= d /\ d <= ScanDuration)
  /\ millis' = plus32(millis, d)
  /\ sinceDriverScan' = Elapsed(sinceDriverScan, d, ScanInterval)
  /\ sinceRefused' = [k \in DOMAIN sinceRefused |->
                        Elapsed(sinceRefused[k], d, MqttBackoff)]
  /\ obs' = NoObs
  /\ UNCHANGED <<allowList, allClients, heap, pubsubs, clientListSem,
                 scanning, scanActive, lastScan, otaUpdating, lastAM43update,
                 globalBus, nextMqttAttempt, wifiDownSince,
                 driverLocals, scanCb, notifyCb, discVars, tickGhosts,
                 connectedSinceScan, acc>>

\* The broker or the network goes away: every bus connection is lost, and
\* its subscriptions with it.
BusLost ==
  /\ Alive
  /\ pubSubConnected \/ \E b \in DOMAIN pubsubs : pubsubs[b].connected
  /\ pubSubConnected' = FALSE
  /\ pubSubSubs' = 0
  /\ pubsubs' = [b \in DOMAIN pubsubs |-> Dropped(pubsubs[b])]
  /\ obs' = NoObs
  /\ UNCHANGED <<allowList, allClients, heap, clientListSem, scanning,
                 scanActive, lastScan, otaUpdating, timeVars, driverLocals,
                 scanCb, notifyCb, discVars, tickGhosts, scanGhosts, acc>>

\* WiFiEvent, lines 277-291, run by the network stack: a lost connection
\* stores millis() in wifiDownSince, an address obtained is only printed.
WiFiEvent(event) ==
  /\ Alive
  /\ event \in {"SYSTEM_EVENT_STA_GOT_IP", "SYSTEM_EVENT_STA_DISCONNECTED"}
  /\ wifiDownSince' = IF event = "SYSTEM_EVENT_STA_DISCONNECTED"
                      THEN millis ELSE wifiDownSince
  /\ acc' = IF event = "SYSTEM_EVENT_STA_DISCONNECTED"
            THEN Touch(acc, "wifiDownSince", "wifi", "w") ELSE acc
  /\ obs' = [op |-> "wifiEvent", event |-> event]
  /\ UNCHANGED <<allowList, allClients, heap, pubsubs, clientListSem,
                 scanning, scanActive, millis, lastScan, otaUpdating,
                 lastAM43update, globalBus, nextMqttAttempt,
                 sinceRefused, driverLocals, scanCb, notifyCb, discVars,
                 tickGhosts, scanGhosts>>

\* ----------------------------------------------------------- scan context
\* isAllowed(address), lines 210-216.
isAllowedAny(list, address) == TRUE
isAllowed(list, address) ==
  IF Len(list) < 1 THEN TRUE
  ELSE \E i \in 1..Len(list) : list[i] = address

\* Lines 230-236: is the advertisement's text a key of the snapshot?
alreadyPresent(cls, key) == \E i \in 1..Len(cls) : cls[i][1] = key

\* onResult, lines 225-246, for an advertisement with this name and
\* address; svc is haveServiceUUID() && isAdvertisingService().  For a
\* device of the service getClients() takes and gives the semaphore; when
\* its text is no key of that snapshot and its address is allowed, the
\* client objects are allocated.  The insert and the stop of the scan
\* follow as steps of their own.  The model allocates MaxAlloc objects per
\* boot at most.
OnResult(name, addr, svc) ==
  /\ Alive
  /\ scanActive
  /\ scanCb = ScanIdle
  /\ LET key == toString(name, addr)
         cls == MapOrder(allClients)
         go == svc /\ ~alreadyPresent(cls, key) /\ isAllowed(allowList, addr)
     IN /\ svc => clientListSem = "free"
        /\ go => Len(heap) < MaxAlloc
        /\ heap' = IF go THEN Append(heap, NewClient(name, addr)) ELSE heap
        /\ clientListSem' = IF svc THEN give("scan") ELSE clientListSem
        /\ scanCb' = IF go THEN [pc |-> "insert", key |-> key,
                                 rid |-> Len(heap) + 1]
                     ELSE ScanIdle
        /\ obs' = IF svc /\ ~go
                  THEN [op |-> "onResult", name |-> name, addr |-> addr,
                        inserted |-> FALSE, before |-> allClients]
                  ELSE NoObs
  /\ UNCHANGED <<allowList, allClients, pubsubs, scanning, scanActive,
                 lastScan, otaUpdating, timeVars, globalBus,
                 driverLocals, notifyCb, discVars, tickGhosts, scanGhosts, acc>>

\* Lines 247-249 of onResult: take("clientInsert"), insert, give.
OnResultInsert ==
  /\ Alive
  /\ scanCb.pc = "insert"
  /\ clientListSem = "free"
  /\ allClients' = MapInsert(allClients, scanCb.key, scanCb.rid)
  /\ clientListSem' = give("scan")
  /\ scanCb' = [pc |-> "stop"]
  /\ obs' = [op |-> "onResult", name |-> heap[scanCb.rid].m_Name,
             addr |-> heap[scanCb.rid].addr,
             inserted |-> TRUE, before |-> allClients]
  /\ UNCHANGED <<allowList, heap, pubsubs, scanning, scanActive, lastScan,
                 otaUpdating, timeVars, globalBus, driverLocals,
                 notifyCb, discVars, tickGhosts, scanGhosts, acc>>

\* Lines 250-251 of onResult: the scan is stopped and the scan flag
\* cleared.
OnResultStop ==
  /\ Alive
  /\ scanCb.pc = "stop"
  /\ scanActive' = FALSE
  /\ scanning' = FALSE
  /\ scanCb' = ScanIdle
  /\ acc' = Touch(acc, "scanning", "scan", "w")
  /\ obs' = NoObs
  /\ UNCHANGED <<allowList, allClients, heap, pubsubs, clientListSem,
                 lastScan, otaUpdating, timeVars, globalBus,
                 driverLocals, notifyCb, discVars, tickGhosts, scanGhosts>>

\* bleScanComplete, lines 256-259: the scan ran its 10 seconds.
BleScanComplete ==
  /\ Alive
  /\ scanActive
  /\ scanCb = ScanIdle
  /\ scanActive' = FALSE
  /\ scanning' = FALSE
  /\ acc' = Touch(acc, "scanning", "scan", "w")
  /\ obs' = NoObs
  /\ UNCHANGED <<allowList, allClients, heap, pubsubs, clientListSem,
                 lastScan, otaUpdating, timeVars, globalBus,
                 driverLocals, scanCb, notifyCb, discVars, tickGhosts,
                 scanGhosts>>

\* ------------------------------------------------------- the device session
\* AM43Client is not part of the sources at hand; its connection flags follow
\* the lifecycle the specification gives (section 4.2).
\* Connecting -> Connected: the session is up, no further connect is due.
sessionConnected(c) == [c EXCEPT !.m_Connected = TRUE, !.m_DoConnect = FALSE]
\* Connecting -> Discovered: a failed connect leaves the record to be
\* retried on a later tick.
sessionConnectFailed(c) == c
\* Connected -> Disconnected: the session reports the transport is gone.
sessionDisconnected(c) ==
  [c EXCEPT !.m_Connected = FALSE, !.m_Disconnected = TRUE]

\* MyAM43Callbacks::onConnect, lines 87-94, on heap cell rid: a new
\* PubSubClient, the retry time back to 0.
onConnect(h, p, rid) ==
  [heap |-> [h EXCEPT ![rid].mqtt = Len(p) + 1,
                      ![rid].nextMqttAttempt = 0],
   pubsubs |-> Append(p, NewPubSub(rid))]

\* ---------------------------------------------------------- inbound bus
\* Payloads sent to a set topic and to a set_position topic.
SetPayloads == { <<"O", "P", "E", "N">>, <<"u", "p">> }
PositionPayloads == { <<"3", "0">>, <<"\t", "4", "x">> }
RestartPayloads == { <<>>, <<"n", "o">> }

\* What can arrive for pubSubClient, by its subscriptions in reconnect_mqtt,
\* lines 313-315.
GlobalMsgs ==
  Msgs(<<"am43", "/", "restart">>, RestartPayloads)
  \cup Msgs(<<"am43", "/", "all", "/", "set">>, SetPayloads)
  \cup Msgs(<<"am43", "/", "all", "/", "set_position">>, PositionPayloads)

\* Can the message msg come in on the global bus client?  Its connection
\* is up and has subscribed to the topic; subs is how many of the
\* subscriptions of lines 313-315 it has made, in their order.
GlobalAccepts(connected, subs, msg) ==
  /\ connected
  /\ \/ msg.topic = <<"am43", "/", "restart">> /\ subs >= 1
     \/ msg.topic = <<"am43", "/", "all", "/", "set">> /\ subs >= 2
     \/ msg.topic = <<"am43", "/", "all", "/", "set_position">> /\ subs >= 3

\* What can arrive for a client's own PubSubClient, by its subscriptions in
\* handle, lines 121-122.
DeviceMsgs(c) ==
  Msgs(topic(c, "set"), SetPayloads)
  \cup Msgs(topic(c, "set_position"), PositionPayloads)

AnyDeviceMsgs == UNION {DeviceMsgs([addr |-> a]) : a \in Addrs}

\* Was the bus client of heap cell rid connected in heap h, bus clients p?
Live(h, p, rid) == h[rid].mqtt # 0 /\ p[h[rid].mqtt].connected

\* The session calls a log holds, in order.
RECURSIVE CallsOfLog(_)
CallsOfLog(log) ==
  IF log = <<>> THEN <<>>
  ELSE (IF Head(log)[1] = "call" THEN <<Head(log)[2]>> ELSE <<>>)
       \o CallsOfLog(Tail(log))

\* mqtt_callback, lines 150-189, on the current registry: getClients(),
\* then the restart branch (the loop of onDisconnect calls, the delay and
\* ESP.restart follow as steps of their own) or the dispatch loop.
mqtt_callback(top, payload) ==
  LET cls == MapOrder(allClients)
      address == topicAddress(top)
      command == topicCommand(top)
  IN IF address = <<"restart">>
     THEN [restart |-> TRUE, calls |-> <<>>, cls |-> cls]
     ELSE [restart |-> FALSE,
           calls |-> dispatch(heap, cls, 1, address, command, payload),
           cls |-> cls]

\* What one run of mqtt_callback was given and did; NoCb when none ran.
NoCb == [ran |-> FALSE]
CallbackObs(msg) ==
  IF msg = NoMsg THEN NoCb
  ELSE LET r == mqtt_callback(msg.topic, msg.payload)
       IN [ran |-> TRUE, topic |-> msg.topic, payload |-> msg.payload,
           cls |-> r.cls, restart |-> r.restart, calls |-> r.calls,
           preHeap |-> heap, prePubsubs |-> pubsubs]

\* Does this message restart the program?
Restarts(msg) ==
  msg # NoMsg /\ topicAddress(msg.topic) = <<"restart">>

\* --------------------------------------------------- transport context
\* notifyCallback and the session's disconnect report are run by the BLE
\* stack one after the other.
Telemetry == {"position", "battery", "light"}

\* notifyCallback, lines 139-145, for a notification on the characteristic
\* of session rid: getClients() takes and gives the semaphore, then the
\* snapshot is searched for the entry whose m_Char is that characteristic.
NotifyFind(rid) ==
  /\ Alive
  /\ notifyCb = 0
  /\ discCb = 0
  /\ rid \in DOMAIN heap
  /\ heap[rid].m_Connected
  /\ clientListSem = "free"
  /\ clientListSem' = give("notify")
  /\ LET cls == MapOrder(allClients)
         found == \E i \in 1..Len(cls) : cls[i][2] = rid
     IN /\ notifyCb' = IF found THEN rid ELSE 0
        /\ obs' = [op |-> "notifyFind", rid |-> rid, found |-> found]
  /\ UNCHANGED <<allowList, allClients, heap, pubsubs, scanning, scanActive,
                 lastScan, otaUpdating, timeVars, globalBus,
                 driverLocals, scanCb, discVars, tickGhosts, scanGhosts, acc>>

\* What a call through a null PubSubClient pointer can do: nothing, or a
\* fault that resets the controller or stops the program.
FaultOutcomes == {"continue", "reset", "halt"}

\* The restart of the controller: the program starts over from setup().
Reboot ==
  /\ allClients' = {}
  /\ heap' = <<>>
  /\ pubsubs' = <<>>
  /\ clientListSem' = "free"
  /\ scanning' = TRUE
  /\ scanActive' = TRUE
  /\ millis' = SetupDelay
  /\ lastScan' = 0
  /\ otaUpdating' = FALSE
  /\ lastAM43update' = 0
  /\ pubSubConnected' = FALSE
  /\ pubSubSubs' = 0
  /\ nextMqttAttempt' = 0
  /\ wifiDownSince' = 0
  /\ dpc' = "top"
  /\ dcls' = <<>>
  /\ di' = 1
  /\ removeList' = <<>>
  /\ delayStart' = 0
  /\ scanCb' = ScanIdle
  /\ notifyCb' = 0
  /\ discCb' = 0
  /\ discPc' = "idle"
  /\ tickDisconnected' = {}
  /\ tickConnects' = 0
  /\ sinceDriverScan' = ScanInterval
  /\ connectedSinceScan' = FALSE
  /\ sinceRefused' = NeverRefused
  /\ acc' = {}
  /\ UNCHANGED allowList

\* Lines 146 and 75-86: the entry found gets myNotifyCallback, which
\* reports the telemetry through onPosition / onBatteryLevel / onLightLevel:
\* a publish through this->mqtt with no test for nullptr.  With mqtt null
\* the call has undefined behaviour, and fault is what comes of it.
NotifyHandle(ev, fault) ==
  /\ Alive
  /\ notifyCb # 0
  /\ LET rid == notifyCb
         b == heap[rid].mqtt
     IN /\ b # 0 => fault = "continue"
        /\ obs' = [op |-> "notify", rid |-> rid, handled |-> TRUE,
                   mqttNull |-> b = 0, fault |-> fault,
                   published |-> b # 0 /\ pubsubs[b].connected]
        /\ IF b = 0 /\ fault = "reset" THEN Reboot
           ELSE /\ notifyCb' = 0
                /\ dpc' = IF b = 0 /\ fault = "halt" THEN "halted" ELSE dpc
                /\ acc' = Touch(acc, "mqtt", "notify", "r")
                /\ UNCHANGED <<allowList, allClients, heap, pubsubs,
                               clientListSem, scanning, scanActive, lastScan,
                               otaUpdating, timeVars, globalBus, dcls,
                               di, removeList, delayStart, scanCb, discVars,
                               tickGhosts, scanGhosts>>

\* The session of heap cell rid reports a disconnect: the flags change and
\* MyAM43Callbacks::onDisconnect begins, in the transport context, with
\* lines 97-99.  After a publish lines 100, 101 and 103 follow as steps of
\* their own; without one line 103 ends the handler.
SessionDisconnect(rid) ==
  /\ Alive
  /\ notifyCb = 0
  /\ discCb = 0
  /\ rid \in DOMAIN heap
  /\ heap[rid].m_Connected
  /\ LET h1 == [heap EXCEPT ![rid] = sessionDisconnected(@)]
         r == onDisconnectPublish(h1, pubsubs, rid)
     IN /\ heap' = IF r.live THEN h1 ELSE onDisconnectClear(h1, rid)
        /\ pubsubs' = r.pubsubs
        /\ discCb' = IF r.live THEN rid ELSE 0
        /\ discPc' = IF r.live THEN "loop" ELSE "idle"
        /\ acc' = Touch(acc, "mqtt", "notify", IF r.live THEN "r" ELSE "w")
        /\ obs' = [op |-> "sessionDisconnect", rid |-> rid, live |-> r.live,
                   preHeap |-> heap, prePubsubs |-> pubsubs]
  /\ UNCHANGED <<allowList, allClients, clientListSem, scanning, scanActive,
                 lastScan, otaUpdating, timeVars, globalBus,
                 driverLocals, scanCb, notifyCb, tickGhosts, scanGhosts>>

\* Line 100 of that onDisconnect: loop(), where the waiting message msg may
\* reach mqtt_callback, whose getClients() waits for the semaphore.  When
\* the driver has cleared mqtt in the meantime, the call goes through a
\* null pointer, and fault is what comes of it.
SessionDisconnectLoop(msg, fault) ==
  /\ Alive
  /\ discCb # 0
  /\ discPc = "loop"
  /\ LET rid == discCb
         b == heap[rid].mqtt
     IN /\ b # 0 => fault = "continue"
        /\ b = 0 => msg = NoMsg
        /\ msg # NoMsg => /\ msg \in DeviceMsgs(heap[rid])
                          /\ Accepts(pubsubs[b], msg)
                          /\ clientListSem = "free"
        /\ obs' = [op |-> "sessionDisconnectLoop", rid |-> rid,
                   mqttNull |-> b = 0, fault |-> fault, msg |-> msg,
                   log |-> IF b = 0 THEN <<>>
                           ELSE onDisconnectLoop(heap, MapOrder(allClients),
                                                 rid, msg),
                   prePubsubs |-> pubsubs]
        /\ IF b = 0 /\ fault = "reset" THEN Reboot
           ELSE /\ discPc' = "disconnect"
                /\ dpc' = IF b = 0 /\ fault = "halt" THEN "halted" ELSE dpc
                /\ clientListSem' = IF msg # NoMsg THEN give("notify")
                                    ELSE clientListSem
                /\ acc' = Touch(acc, "mqtt", "notify", "r")
                /\ UNCHANGED <<allowList, allClients, heap, pubsubs,
                               scanning, scanActive, lastScan, otaUpdating,
                               timeVars, globalBus, dcls, di, removeList,
                               delayStart, scanCb, notifyCb, discCb,
                               tickGhosts, scanGhosts>>

\* Line 101 of that onDisconnect: disconnect().  When the driver has
\* cleared mqtt in the meantime, the call goes through a null pointer, and
\* fault is what comes of it.
SessionDisconnectClose(fault) ==
  /\ Alive
  /\ discCb # 0
  /\ discPc = "disconnect"
  /\ LET rid == discCb
         b == heap[rid].mqtt
     IN /\ b # 0 => fault = "continue"
        /\ obs' = [op |-> "sessionDisconnectClose", rid |-> rid,
                   mqttNull |-> b = 0, fault |-> fault, bus |-> b,
                   prePubsubs |-> pubsubs]
        /\ IF b = 0 /\ fault = "reset" THEN Reboot
           ELSE /\ pubsubs' = IF b = 0 THEN pubsubs
                              ELSE onDisconnectClose(pubsubs, b)
                /\ discPc' = "clear"
                /\ dpc' = IF b = 0 /\ fault = "halt" THEN "halted" ELSE dpc
                /\ acc' = Touch(acc, "mqtt", "notify", "r")
                /\ UNCHANGED <<allowList, allClients, heap, clientListSem,
                               scanning, scanActive, lastScan, otaUpdating,
                               timeVars, globalBus, dcls, di, removeList,
                               delayStart, scanCb, notifyCb, discCb,
                               tickGhosts, scanGhosts>>

\* Line 103 of that onDisconnect: the pointer is cleared and the handler
\* returns.
SessionDisconnectEnd ==
  /\ Alive
  /\ discCb # 0
  /\ discPc = "clear"
  /\ heap' = onDisconnectClear(heap, discCb)
  /\ discCb' = 0
  /\ discPc' = "idle"
  /\ acc' = Touch(acc, "mqtt", "notify", "w")
  /\ obs' = [op |-> "sessionDisconnectEnd", rid |-> discCb]
  /\ UNCHANGED <<allowList, allClients, pubsubs, clientListSem, scanning,
                 scanActive, lastScan, otaUpdating, timeVars, globalBus,
                 driverLocals, scanCb, notifyCb, tickGhosts, scanGhosts>>

\* ------------------------------------------------------------- the driver
\* The inputs of a step are drawn once: an input the step does not read
\* (the network state when no connect is due, the broker's answer when no
\* connect is tried) is fixed to TRUE.
OneInput(wifi, ok, wifiRead, okRead) ==
  /\ ~wifiRead => wifi
  /\ ~okRead => ok

\* Line 381: is setup_wifi() run again?  wifi is WiFi.status() ==
\* WL_CONNECTED, m is millis().
wifiRestartDue(wifi, downSince, m) ==
  ~wifi /\ less32(0, downSince) /\ less32(WifiDownLimit, minus32(m, downSince))

\* The gate of line 306: is a connect of the global bus client tried?
reconnectDue(wifi, m, next) == wifi /\ less32(next, m)

\* delay(ms), begun at delayStart, is over.
DelayOver(ms) == ~less32(Since(delayStart), ms)

\* delay(200) before ESP.restart(), line 167.
RestartDelay == 200

\* Lines 381-382 and 294-295 of a pass of loop() in which the network has
\* been down for too long: setup_wifi() is entered, disconnects and waits.
\* wifi is WiFi.status() == WL_CONNECTED as line 381 reads it.
LoopWifi(wifi) ==
  /\ dpc = "top"
  /\ wifiRestartDue(wifi, wifiDownSince, millis)
  /\ dpc' = "setup_wifi"
  /\ delayStart' = millis
  /\ acc' = Touch(acc, "wifiDownSince", "driver", "r")
  /\ obs' = [op |-> "wifiRestart"]
  /\ UNCHANGED <<allowList, allClients, heap, pubsubs, clientListSem,
                 scanning, scanActive, lastScan, otaUpdating, timeVars,
                 globalBus, dcls, di, removeList, scanCb, notifyCb,
                 discVars, tickGhosts, scanGhosts>>

\* Lines 296-300: the delay of setup_wifi() is over, the network is
\* started again and wifiDownSince cleared.
SetupWifi ==
  /\ dpc = "setup_wifi"
  /\ DelayOver(SetupDelay)
  /\ wifiDownSince' = 0
  /\ dpc' = "reconnect"
  /\ delayStart' = 0
  /\ acc' = Touch(acc, "wifiDownSince", "driver", "w")
  /\ obs' = NoObs
  /\ UNCHANGED <<allowList, allClients, heap, pubsubs, clientListSem,
                 scanning, scanActive, millis, lastScan, otaUpdating,
                 lastAM43update, globalBus, nextMqttAttempt,
                 sinceRefused, dcls, di, removeList, scanCb, notifyCb,
                 discVars, tickGhosts, scanGhosts>>

\* Where loop() goes on after a run of mqtt_callback for msg: into the
\* restart branch (lines 165-168), to its delay at once when the snapshot
\* is empty, or on to position next.
AfterCallback(msg, next) ==
  /\ dpc' = IF ~Restarts(msg) THEN next
            ELSE IF allClients = {} THEN "restart_delay" ELSE "restart_iter"
  /\ dcls' = IF Restarts(msg) THEN MapOrder(allClients) ELSE dcls
  /\ di' = IF Restarts(msg) THEN 1 ELSE di
  /\ delayStart' = IF Restarts(msg) /\ allClients = {} THEN millis
                   ELSE delayStart

\* Lines 381, 384-385 and 306-309 of a pass of loop() in which setup_wifi()
\* is not run, or lines 384-385 and 306-309 after it: when the global bus
\* client is down, reconnect_mqtt() tests its gate and calls connect(),
\* which blocks.  wifi1 and wifi are WiFi.status() == WL_CONNECTED as line
\* 381 and line 306 read it.
LoopReconnect(wifi1, wifi) ==
  /\ dpc \in {"top", "reconnect"}
  /\ dpc = "top" => ~wifiRestartDue(wifi1, wifiDownSince, millis)
  /\ dpc = "reconnect" => wifi1
  /\ OneInput(wifi, TRUE, ~pubSubConnected, FALSE)
  /\ dpc' = IF ~pubSubConnected /\ reconnectDue(wifi, millis, nextMqttAttempt)
            THEN "global_connecting" ELSE "bus"
  /\ acc' = IF dpc = "top" /\ ~wifi1
            THEN Touch(acc, "wifiDownSince", "driver", "r") ELSE acc
  /\ obs' = NoObs
  /\ UNCHANGED <<allowList, allClients, heap, pubsubs, clientListSem,
                 scanning, scanActive, lastScan, otaUpdating, timeVars,
                 globalBus, dcls, di, removeList, delayStart, scanCb,
                 notifyCb, discVars, tickGhosts, scanGhosts>>

\* Lines 309-310 and 317-323: connect() returns, ok being whether the
\* broker accepts.  An accepted connect leaves the global bus client
\* connected, and line 312 follows as a step of its own; a refusal sets the
\* retry time from what millis() returns now.
ReconnectDone(ok) ==
  /\ dpc = "global_connecting"
  /\ pubSubConnected' = ok
  /\ pubSubSubs' = 0
  /\ nextMqttAttempt' = IF ok THEN nextMqttAttempt ELSE BackoffStamp(millis)
  /\ sinceRefused' = IF ok THEN sinceRefused
                     ELSE [sinceRefused EXCEPT ![0] = 0]
  /\ dpc' = IF ok THEN "global_publish" ELSE "bus"
  /\ obs' = NoObs
  /\ UNCHANGED <<allowList, allClients, heap, pubsubs, clientListSem,
                 scanning, scanActive, millis, lastScan, otaUpdating,
                 lastAM43update, wifiDownSince, dcls, di, removeList,
                 delayStart, scanCb, notifyCb, discVars, tickGhosts,
                 scanGhosts, acc>>

\* Where reconnect_mqtt() stands after a call of lines 312-315, and the
\* subscriptions the connection has made once the call is through.
GlobalNext(pc) ==
  IF pc = "global_publish" THEN "global_sub_restart"
  ELSE IF pc = "global_sub_restart" THEN "global_sub_set"
  ELSE IF pc = "global_sub_set" THEN "global_sub_position"
  ELSE "global_loop"
GlobalSubs(pc, subs) ==
  IF pc = "global_sub_restart" THEN 1
  ELSE IF pc = "global_sub_set" THEN 2
  ELSE IF pc = "global_sub_position" THEN 3
  ELSE subs

\* One of lines 312-315 of reconnect_mqtt(): the retained publish of
\* am43/LWT=Online, the subscription to am43/restart, to am43/all/set or
\* to am43/all/set_position, each a call on pubSubClient that writes to the
\* network; on a client whose connection is gone the call does nothing.
GlobalAnnounce ==
  /\ dpc \in {"global_publish", "global_sub_restart", "global_sub_set",
              "global_sub_position"}
  /\ pubSubSubs' = IF pubSubConnected THEN GlobalSubs(dpc, pubSubSubs)
                   ELSE pubSubSubs
  /\ dpc' = GlobalNext(dpc)
  /\ obs' = NoObs
  /\ UNCHANGED <<allowList, allClients, heap, pubsubs, clientListSem,
                 scanning, scanActive, lastScan, otaUpdating, timeVars,
                 pubSubConnected, dcls, di, removeList, delayStart, scanCb,
                 notifyCb, discVars, tickGhosts, scanGhosts, acc>>

\* Line 316 of reconnect_mqtt(): pubSubClient.loop(), which may hand the
\* waiting message msg to mqtt_callback.
GlobalLoop(msg) ==
  /\ dpc = "global_loop"
  /\ msg # NoMsg => /\ GlobalAccepts(pubSubConnected, pubSubSubs, msg)
                    /\ clientListSem = "free"
  /\ AfterCallback(msg, "bus")
  /\ obs' = IF msg = NoMsg THEN NoObs
            ELSE [op |-> "reconnect", cb |-> CallbackObs(msg)]
  /\ UNCHANGED <<allowList, allClients, heap, pubsubs, clientListSem,
                 scanning, scanActive, lastScan, otaUpdating, timeVars,
                 globalBus, removeList, scanCb, notifyCb, discVars,
                 tickGhosts, scanGhosts, acc>>

\* Line 387 of loop(): pubSubClient.loop(), which may hand the waiting
\* message msg to mqtt_callback when the global bus client is connected.
LoopBus(msg) ==
  /\ dpc = "bus"
  /\ msg # NoMsg => /\ GlobalAccepts(pubSubConnected, pubSubSubs, msg)
                    /\ clientListSem = "free"
  /\ AfterCallback(msg, "tick")
  /\ obs' = IF msg = NoMsg THEN NoObs
            ELSE [op |-> "bus", cb |-> CallbackObs(msg)]
  /\ UNCHANGED <<allowList, allClients, heap, pubsubs, clientListSem,
                 scanning, scanActive, lastScan, otaUpdating, timeVars,
                 globalBus, removeList, scanCb, notifyCb, discVars,
                 tickGhosts, scanGhosts, acc>>

\* Where the restart branch goes on after the entry at position di: to the
\* next entry, or to the delay of line 167.
AfterEntry ==
  /\ di' = di + 1
  /\ dpc' = IF di + 1 > Len(dcls) THEN "restart_delay" ELSE "restart_iter"
  /\ delayStart' = IF di + 1 > Len(dcls) THEN millis ELSE delayStart

\* Lines 165-166 for one entry of the snapshot: onDisconnect begins on it
\* with lines 97-99.  After a publish lines 100, 101 and 103 follow as
\* steps of their own; without one line 103 ends the call.
RestartDisconnect ==
  /\ dpc = "restart_iter"
  /\ LET rid == dcls[di][2]
         r == onDisconnectPublish(heap, pubsubs, rid)
     IN /\ heap' = IF r.live THEN heap ELSE onDisconnectClear(heap, rid)
        /\ pubsubs' = r.pubsubs
        /\ IF r.live
           THEN dpc' = "restart_loop" /\ UNCHANGED <<di, delayStart>>
           ELSE AfterEntry
        /\ acc' = Touch(acc, "mqtt", "driver", IF r.live THEN "r" ELSE "w")
        /\ obs' = [op |-> "restartDisconnect", rid |-> rid, live |-> r.live,
                   preHeap |-> heap, prePubsubs |-> pubsubs]
  /\ UNCHANGED <<allowList, allClients, clientListSem, scanning, scanActive,
                 lastScan, otaUpdating, timeVars, globalBus, dcls,
                 removeList, scanCb, notifyCb, discVars, tickGhosts,
                 scanGhosts>>

\* Line 100 of that onDisconnect: loop(), where the waiting message msg may
\* reach mqtt_callback.  When the transport context has cleared mqtt in the
\* meantime, the call goes through a null pointer, and fault is what comes
\* of it.
RestartDisconnectLoop(msg, fault) ==
  /\ dpc = "restart_loop"
  /\ LET rid == dcls[di][2]
         b == heap[rid].mqtt
     IN /\ b # 0 => fault = "continue"
        /\ b = 0 => msg = NoMsg
        /\ msg # NoMsg => /\ msg \in DeviceMsgs(heap[rid])
                          /\ Accepts(pubsubs[b], msg)
                          /\ clientListSem = "free"
        /\ obs' = [op |-> "restartDisconnectLoop", rid |-> rid,
                   mqttNull |-> b = 0, fault |-> fault, msg |-> msg,
                   log |-> IF b = 0 THEN <<>>
                           ELSE onDisconnectLoop(heap, MapOrder(allClients),
                                                 rid, msg),
                   prePubsubs |-> pubsubs]
        /\ IF b = 0 /\ fault = "reset" THEN Reboot
           ELSE /\ dpc' = IF b = 0 /\ fault = "halt" THEN "halted"
                          ELSE "restart_close"
                /\ acc' = Touch(acc, "mqtt", "driver", "r")
                /\ UNCHANGED <<allowList, allClients, heap, pubsubs,
                               clientListSem, scanning, scanActive, lastScan,
                               otaUpdating, timeVars, globalBus, dcls, di,
                               removeList, delayStart, scanCb, notifyCb,
                               discVars, tickGhosts, scanGhosts>>

\* Line 101 of that onDisconnect: disconnect().  When the transport
\* context has cleared mqtt in the meantime, the call goes through a null
\* pointer, and fault is what comes of it.
RestartDisconnectClose(fault) ==
  /\ dpc = "restart_close"
  /\ LET rid == dcls[di][2]
         b == heap[rid].mqtt
     IN /\ b # 0 => fault = "continue"
        /\ obs' = [op |-> "restartDisconnectClose", rid |-> rid,
                   mqttNull |-> b = 0, fault |-> fault, bus |-> b,
                   prePubsubs |-> pubsubs]
        /\ IF b = 0 /\ fault = "reset" THEN Reboot
           ELSE /\ pubsubs' = IF b = 0 THEN pubsubs
                              ELSE onDisconnectClose(pubsubs, b)
                /\ dpc' = IF b = 0 /\ fault = "halt" THEN "halted"
                          ELSE "restart_clear"
                /\ acc' = Touch(acc, "mqtt", "driver", "r")
                /\ UNCHANGED <<allowList, allClients, heap, clientListSem,
                               scanning, scanActive, lastScan, otaUpdating,
                               timeVars, globalBus, dcls, di, removeList,
                               delayStart, scanCb, notifyCb, discVars,
                               tickGhosts, scanGhosts>>

\* Line 103 of that onDisconnect: the pointer is cleared, and the restart
\* branch goes on with the next entry.
RestartDisconnectEnd ==
  /\ dpc = "restart_clear"
  /\ heap' = onDisconnectClear(heap, dcls[di][2])
  /\ AfterEntry
  /\ acc' = Touch(acc, "mqtt", "driver", "w")
  /\ obs' = [op |-> "restartDisconnectEnd", rid |-> dcls[di][2]]
  /\ UNCHANGED <<allowList, allClients, pubsubs, clientListSem, scanning,
                 scanActive, lastScan, otaUpdating, timeVars, globalBus,
                 dcls, removeList, scanCb, notifyCb, discVars, tickGhosts,
                 scanGhosts>>

\* Is a scan due at line 414?
scanDueAlways(since, ota) == less32(ScanInterval, since)
scanDueAnytime(since, ota) == ~ota
scanDue(since, ota) == less32(ScanInterval, since) /\ ~ota

\* What ArduinoOTA.handle() may run in a pass: nothing, the start of an
\* update (onStart, lines 339-351), its end (onEnd, lines 352-355) or its
\* failure (onError, lines 359-367).
OtaEvents == {"none", "start", "end", "error"}

\* Lines 413-419: a scan is started when the interval has passed and no
\* update runs (initBLEScan, lines 261-273), then ArduinoOTA.handle(), where
\* an update may start, which sets otaUpdating and stops the scan, end,
\* which disconnects the global bus client, or fail, which clears
\* otaUpdating.
ScanAndOta(ota) ==
  LET start == scanDue(Since(lastScan), otaUpdating)
  IN /\ ota = "start" => ~otaUpdating
     /\ ota \in {"end", "error"} => otaUpdating
     /\ lastScan' = IF start THEN millis ELSE lastScan
     /\ sinceDriverScan' = IF start THEN 0 ELSE sinceDriverScan
     /\ connectedSinceScan' = IF start THEN FALSE ELSE connectedSinceScan
     /\ scanning' = IF start THEN TRUE ELSE scanning
     /\ scanActive' = IF ota = "start" THEN FALSE
                      ELSE IF start THEN TRUE ELSE scanActive
     /\ otaUpdating' = IF ota = "start" THEN TRUE
                       ELSE IF ota = "error" THEN FALSE ELSE otaUpdating
     /\ pubSubConnected' = IF ota = "end" THEN FALSE ELSE pubSubConnected
     /\ pubSubSubs' = IF ota = "end" THEN 0 ELSE pubSubSubs

ScanAcc(a) ==
  IF scanDue(Since(lastScan), otaUpdating)
  THEN Touch(Touch(a, "scanning", "driver", "w"), "lastScan", "driver", "w")
  ELSE Touch(a, "lastScan", "driver", "r")

ScanObs(ota) ==
  LET start == scanDue(Since(lastScan), otaUpdating)
  IN [started |-> start, ota |-> ota,
      wasScanning |-> start /\ scanning, wasActive |-> start /\ scanActive,
      sincePrev |-> IF start THEN sinceDriverScan ELSE 0,
      connected |-> start /\ connectedSinceScan]

\* Is the tick due at line 389?
tickDue(since) == less32(TickInterval, since)

\* Lines 389 and 413-419 of a pass of loop() in which the tick is not due:
\* the scan check and ArduinoOTA.handle() end the pass.
LoopNoTick(ota) ==
  /\ dpc = "tick"
  /\ ~tickDue(Since(lastAM43update))
  /\ ScanAndOta(ota)
  /\ dpc' = "top"
  /\ acc' = ScanAcc(acc)
  /\ obs' = IF ota = "none" /\ ~ScanObs(ota).started THEN NoObs
            ELSE [op |-> "noTick", sc |-> ScanObs(ota)]
  /\ UNCHANGED <<allowList, allClients, heap, pubsubs, clientListSem,
                 millis, lastAM43update, nextMqttAttempt, wifiDownSince,
                 sinceRefused, dcls, di, removeList, delayStart, scanCb,
                 notifyCb, discVars, tickGhosts>>

\* Lines 389-391 of a pass of loop() in which the tick is due: the snapshot
\* getClients() returns (take, copy, give).
LoopTick ==
  /\ dpc = "tick"
  /\ tickDue(Since(lastAM43update))
  /\ clientListSem = "free"
  /\ clientListSem' = give("driver")
  /\ dcls' = MapOrder(allClients)
  /\ di' = 1
  /\ removeList' = <<>>
  /\ tickDisconnected' =
       {e[2] : e \in {x \in allClients : heap[x[2]].m_Disconnected}}
  /\ tickConnects' = 0
  /\ dpc' = IF allClients = {} THEN "remove" ELSE "iter"
  /\ obs' = NoObs
  /\ UNCHANGED <<allowList, allClients, heap, pubsubs, scanning, scanActive,
                 lastScan, otaUpdating, timeVars, globalBus,
                 delayStart, scanCb, notifyCb, discVars, scanGhosts, acc>>

\* Line 394: does this entry get a connect now?
connectDue(c, scanFlag) == c.m_DoConnect /\ ~scanFlag

\* Lines 394-395: the entry is due a connect and no scan is flagged;
\* connectToServer is called and blocks.
IterConnect ==
  /\ dpc = "iter"
  /\ connectDue(heap[dcls[di][2]], scanning)
  /\ dpc' = "connecting"
  /\ acc' = Touch(acc, "scanning", "driver", "r")
  /\ tickConnects' = tickConnects + 1
  /\ obs' = [op |-> "connectCall", rid |-> dcls[di][2]]
  /\ UNCHANGED <<allowList, allClients, heap, pubsubs, clientListSem,
                 scanning, scanActive, lastScan, otaUpdating, timeVars,
                 globalBus, dcls, di, removeList, delayStart, scanCb,
                 notifyCb, discVars, tickDisconnected, scanGhosts>>

\* Line 396: the break after connectToServer leaves the iteration, so the
\* driver goes on with the removal pass.
afterConnectContinue == "iter"
afterConnect == "remove"

\* connectToServer returns and line 396 breaks out of the loop.  On success
\* the session is connected and MyAM43Callbacks::onConnect has run, which
\* also moves lastScan back by one scan interval (line 93).
ConnectDone(ok) ==
  /\ dpc = "connecting"
  /\ LET rid == dcls[di][2]
         h1 == [heap EXCEPT ![rid] = sessionConnected(@)]
         r == onConnect(h1, pubsubs, rid)
     IN IF ok
        THEN /\ heap' = r.heap
             /\ pubsubs' = r.pubsubs
             /\ lastScan' = minus32(millis, ScanInterval)
             /\ acc' = Touch(Touch(acc, "mqtt", "driver", "w"),
                             "lastScan", "driver", "w")
        ELSE /\ heap' = [heap EXCEPT ![rid] = sessionConnectFailed(@)]
             /\ UNCHANGED <<pubsubs, lastScan, acc>>
  /\ dpc' = afterConnect
  /\ obs' = [op |-> "connectDone", rid |-> dcls[di][2], ok |-> ok]
  /\ connectedSinceScan' = (ok \/ connectedSinceScan)
  /\ UNCHANGED <<allowList, allClients, clientListSem, scanning, scanActive,
                 otaUpdating, timeVars, globalBus, dcls, di,
                 removeList, delayStart, scanCb, notifyCb, discVars,
                 tickGhosts, sinceDriverScan>>

\* The gate of line 112: is a connect of a record's bus client tried?
attemptDue(wifi, m, next) == ~(~wifi \/ less32(m, next))

\* MyAM43Callbacks::handle, lines 106-113, up to the call of connect():
\* whether loop() runs on a connected client (line 109, so that a message
\* can come in) and whether a connect is tried.
handle(h, p, rid, wifi, m) ==
  LET c == h[rid]
      b == c.mqtt
  IN IF b = 0 THEN [looped |-> FALSE, tried |-> FALSE]
     ELSE IF p[b].connected THEN [looped |-> TRUE, tried |-> FALSE]
     ELSE [looped |-> FALSE,
           tried |-> attemptDue(wifi, m, c.nextMqttAttempt)]

\* Lines 394 and 398-399 for an entry that gets no connect: when its
\* session is connected it is polled (update, a call into the session),
\* and handle() follows as a step of its own; otherwise line 402 is next.
IterService ==
  /\ dpc = "iter"
  /\ ~connectDue(heap[dcls[di][2]], scanning)
  /\ dpc' = IF heap[dcls[di][2]].m_Connected THEN "handle" ELSE "iter_end"
  /\ acc' = IF heap[dcls[di][2]].m_DoConnect
            THEN Touch(acc, "scanning", "driver", "r") ELSE acc
  /\ obs' = NoObs
  /\ UNCHANGED <<allowList, allClients, heap, pubsubs, clientListSem,
                 scanning, scanActive, lastScan, otaUpdating, timeVars,
                 globalBus, dcls, di, removeList, delayStart, scanCb,
                 notifyCb, discVars, tickGhosts, scanGhosts>>

\* Line 400 and lines 108-113 of handle(): without a bus client it
\* returns; a connected one is serviced by loop(), where the waiting
\* message msg may reach mqtt_callback; one that is down gets a connect
\* when the gate of line 112 lets it, and connect() blocks.  wifi is
\* WiFi.status() == WL_CONNECTED as line 112 reads it.
HandleBegin(wifi, msg) ==
  /\ dpc = "handle"
  /\ LET rid == dcls[di][2]
         c == heap[rid]
         hd == handle(heap, pubsubs, rid, wifi, millis)
     IN /\ OneInput(wifi, TRUE, c.mqtt # 0 /\ ~pubsubs[c.mqtt].connected,
                    FALSE)
        /\ msg # NoMsg =>
             /\ hd.looped
             /\ msg \in DeviceMsgs(c)
             /\ Accepts(pubsubs[c.mqtt], msg)
             /\ clientListSem = "free"
        /\ dpc' = IF hd.tried THEN "bus_connecting" ELSE "iter_end"
        /\ obs' = [op |-> "handle", rid |-> rid, tried |-> hd.tried,
                   wifi |-> wifi, cb |-> CallbackObs(msg)]
  /\ acc' = Touch(acc, "mqtt", "driver", "r")
  /\ UNCHANGED <<allowList, allClients, heap, pubsubs, clientListSem,
                 scanning, scanActive, lastScan, otaUpdating, timeVars,
                 globalBus, dcls, di, removeList, delayStart, scanCb,
                 notifyCb, discVars, tickGhosts, scanGhosts>>

\* The PubSubClient onConnect has made for heap cell rid.
BusOf(p, rid) == CHOOSE b \in DOMAIN p : p[b].owner = rid

\* Lines 113-117 of handle(): connect() returns, ok being whether the
\* broker accepts.  An accepted connect leaves the bus client connected,
\* and line 120 follows as a step of its own.  After a refusal line 115
\* asks the client for its state and line 117 sets the retry time from
\* what millis() returns now; when the transport context has cleared mqtt
\* in the meantime, line 115 goes through a null pointer, fault is what
\* comes of it, and only a program that goes on reaches line 117.
BusConnectDone(ok, fault) ==
  /\ dpc = "bus_connecting"
  /\ LET rid == dcls[di][2]
         b == BusOf(pubsubs, rid)
         gone == ~ok /\ heap[rid].mqtt = 0
     IN /\ ~gone => fault = "continue"
        /\ obs' = IF gone
                  THEN [op |-> "busConnect", rid |-> rid, mqttNull |-> TRUE,
                        fault |-> fault]
                  ELSE NoObs
        /\ IF gone /\ fault = "reset" THEN Reboot
           ELSE /\ pubsubs' = IF ok THEN [pubsubs EXCEPT ![b].connected = TRUE]
                              ELSE pubsubs
                /\ heap' = IF ok \/ fault = "halt" THEN heap
                           ELSE [heap EXCEPT ![rid].nextMqttAttempt =
                                               BackoffStamp(millis)]
                /\ sinceRefused' = IF ok THEN sinceRefused
                                   ELSE [sinceRefused EXCEPT ![rid] = 0]
                /\ dpc' = IF ok THEN "bus_publish"
                          ELSE IF fault = "halt" THEN "halted"
                          ELSE "iter_end"
                /\ acc' = IF ok THEN acc
                          ELSE Touch(acc, "mqtt", "driver", "r")
                /\ UNCHANGED <<allowList, allClients, clientListSem,
                               scanning, scanActive, millis, lastScan,
                               otaUpdating, lastAM43update, globalBus,
                               nextMqttAttempt, wifiDownSince, dcls, di,
                               removeList, delayStart, scanCb, notifyCb,
                               discVars, tickGhosts, scanGhosts>>

\* Where handle() stands after a call of lines 120-122, and the
\* subscriptions the connection has made once the call is through.
AnnounceNext(pc) ==
  IF pc = "bus_publish" THEN "bus_sub_set"
  ELSE IF pc = "bus_sub_set" THEN "bus_sub_position"
  ELSE "bus_loop"
AnnounceSubs(pc, subs) ==
  IF pc = "bus_sub_set" THEN 1
  ELSE IF pc = "bus_sub_position" THEN 2
  ELSE subs

\* One of lines 120-122 of handle(): the retained publish of
\* available=online, the subscription to set or the one to set_position,
\* each a call through this->mqtt that writes to the network; on a client
\* whose connection is gone the call does nothing.  When the transport
\* context has cleared mqtt in the meantime, the call goes through a null
\* pointer, and fault is what comes of it.
BusAnnounce(fault) ==
  /\ dpc \in {"bus_publish", "bus_sub_set", "bus_sub_position"}
  /\ LET rid == dcls[di][2]
         b == heap[rid].mqtt
     IN /\ b # 0 => fault = "continue"
        /\ obs' = IF b = 0
                  THEN [op |-> "busAnnounce", rid |-> rid, mqttNull |-> TRUE,
                        fault |-> fault]
                  ELSE NoObs
        /\ IF b = 0 /\ fault = "reset" THEN Reboot
           ELSE /\ pubsubs' = IF b # 0 /\ pubsubs[b].connected
                              THEN [pubsubs EXCEPT ![b].subs =
                                                     AnnounceSubs(dpc, @)]
                              ELSE pubsubs
                /\ dpc' = IF b = 0 /\ fault = "halt" THEN "halted"
                          ELSE AnnounceNext(dpc)
                /\ acc' = Touch(acc, "mqtt", "driver", "r")
                /\ UNCHANGED <<allowList, allClients, heap, clientListSem,
                               scanning, scanActive, lastScan, otaUpdating,
                               timeVars, globalBus, dcls, di,
                               removeList, delayStart, scanCb, notifyCb,
                               discVars, tickGhosts, scanGhosts>>

\* Line 123 of handle(): loop(), where the waiting message msg may reach
\* mqtt_callback.  When the transport context has cleared mqtt in the
\* meantime, the call goes through a null pointer, and fault is what comes
\* of it.
BusLoop(msg, fault) ==
  /\ dpc = "bus_loop"
  /\ LET rid == dcls[di][2]
         b == heap[rid].mqtt
     IN /\ b # 0 => fault = "continue"
        /\ b = 0 => msg = NoMsg
        /\ msg # NoMsg => /\ msg \in DeviceMsgs(heap[rid])
                          /\ Accepts(pubsubs[b], msg)
                          /\ clientListSem = "free"
        /\ obs' = IF b # 0 /\ msg = NoMsg THEN NoObs
                  ELSE [op |-> "busLoop", rid |-> rid, mqttNull |-> b = 0,
                        fault |-> fault, cb |-> CallbackObs(msg)]
        /\ IF b = 0 /\ fault = "reset" THEN Reboot
           ELSE /\ dpc' = IF b = 0 /\ fault = "halt" THEN "halted"
                          ELSE "iter_end"
                /\ acc' = Touch(acc, "mqtt", "driver", "r")
                /\ UNCHANGED <<allowList, allClients, heap, pubsubs,
                               clientListSem, scanning, scanActive, lastScan,
                               otaUpdating, timeVars, globalBus, dcls,
                               di, removeList, delayStart, scanCb, notifyCb,
                               discVars, tickGhosts, scanGhosts>>

\* Line 402, after lines 398-400 are through: an entry whose session is
\* disconnected now joins removeList, and the iteration goes on.
IterRemove ==
  /\ dpc = "iter_end"
  /\ removeList' = IF heap[dcls[di][2]].m_Disconnected
                   THEN Append(removeList, dcls[di][1]) ELSE removeList
  /\ di' = di + 1
  /\ dpc' = IF di + 1 > Len(dcls) THEN "remove" ELSE "iter"
  /\ obs' = NoObs
  /\ UNCHANGED <<allowList, allClients, heap, pubsubs, clientListSem,
                 scanning, scanActive, lastScan, otaUpdating, timeVars,
                 globalBus, dcls, delayStart, scanCb, notifyCb, discVars,
                 tickGhosts, scanGhosts, acc>>

\* Line 406: clientListSem.take("clientRemove").
RemoveTake ==
  /\ dpc = "remove"
  /\ removeList # <<>>
  /\ clientListSem = "free"
  /\ clientListSem' = "driver"
  /\ dpc' = "erase"
  /\ obs' = NoObs
  /\ UNCHANGED <<allowList, allClients, heap, pubsubs, scanning, scanActive,
                 lastScan, otaUpdating, timeVars, globalBus, dcls, di,
                 removeList, delayStart, scanCb, notifyCb, discVars,
                 tickGhosts, scanGhosts, acc>>

\* Lines 407-408: the entry is erased from the map (nothing is deleted) and
\* the semaphore given.
RemoveErase ==
  /\ dpc = "erase"
  /\ allClients' = MapErase(allClients, Head(removeList))
  /\ removeList' = Tail(removeList)
  /\ clientListSem' = give(clientListSem)
  /\ dpc' = "remove"
  /\ obs' = [op |-> "erase", key |-> Head(removeList)]
  /\ UNCHANGED <<allowList, heap, pubsubs, scanning, scanActive, lastScan,
                 otaUpdating, timeVars, globalBus, dcls, di,
                 delayStart, scanCb, notifyCb, discVars, tickGhosts,
                 scanGhosts, acc>>

\* Lines 405-419 with nothing left to remove: the tick ends, then the scan
\* check and ArduinoOTA.handle() end the pass of loop().
TickEnd(ota) ==
  /\ dpc = "remove"
  /\ removeList = <<>>
  /\ lastAM43update' = millis
  /\ ScanAndOta(ota)
  /\ acc' = ScanAcc(acc)
  /\ dcls' = <<>>
  /\ di' = 1
  /\ dpc' = "top"
  /\ tickDisconnected' = {}
  /\ tickConnects' = 0
  /\ obs' = [op |-> "tickEnd", sc |-> ScanObs(ota),
             left |-> {rid \in tickDisconnected :
                         \E e \in allClients : e[2] = rid}]
  /\ UNCHANGED <<allowList, allClients, heap, pubsubs, clientListSem,
                 millis, nextMqttAttempt, wifiDownSince, sinceRefused,
                 removeList, delayStart, scanCb, notifyCb, discVars>>

\* Lines 167-168: delay(200) is over and ESP.restart() restarts the program.
EspRestart ==
  /\ dpc = "restart_delay"
  /\ DelayOver(RestartDelay)
  /\ Reboot
  /\ obs' = [op |-> "restart"]

\* ---------------------------------------------------------- specification
\* Half a round of millis(), 2^31 ms, as a 32-bit unsigned number.
HalfRound == INT_MIN

\* The clock steps: half a round of millis(), which is past every interval
\* of the program; two of them bring millis() back to where it was.
Deltas == {HalfRound}

\* The program with two devices in range, one of them seen under two
\* names.  The bus is quiet and no telemetry arrives, the broker accepts
\* every connect the program tries (the network may be down, so that none
\* is tried), no update is offered and no network event comes in.
Next ==
  \/ \E d \in Deltas : Advance(d)
  \/ \E ad \in Ads, svc \in BOOLEAN : OnResult(ad[1], ad[2], svc)
  \/ OnResultInsert
  \/ OnResultStop
  \/ BleScanComplete
  \/ \E rid \in 1..MaxAlloc : SessionDisconnect(rid)
  \/ \E fault \in FaultOutcomes : SessionDisconnectLoop(NoMsg, fault)
  \/ \E fault \in FaultOutcomes : SessionDisconnectClose(fault)
  \/ SessionDisconnectEnd
  \/ \E wifi1 \in BOOLEAN, wifi \in BOOLEAN : LoopReconnect(wifi1, wifi)
  \/ ReconnectDone(TRUE)
  \/ GlobalAnnounce
  \/ GlobalLoop(NoMsg)
  \/ LoopBus(NoMsg)
  \/ LoopNoTick("none")
  \/ LoopTick
  \/ IterConnect
  \/ \E ok \in BOOLEAN : ConnectDone(ok)
  \/ IterService
  \/ \E wifi \in BOOLEAN : HandleBegin(wifi, NoMsg)
  \/ \E fault \in FaultOutcomes : BusConnectDone(TRUE, fault)
  \/ \E fault \in FaultOutcomes : BusAnnounce(fault)
  \/ \E fault \in FaultOutcomes : BusLoop(NoMsg, fault)
  \/ IterRemove
  \/ RemoveTake
  \/ RemoveErase
  \/ TickEnd("none")

Spec == Init /\ [][Next]_vars

\* ----------------------------------------------------------------- the bus
\* The same program with commands arriving on the bus: two devices
\* advertise, each under one name, the allow list is empty, the broker
\* accepts and may go away, and telemetry comes in.
BusAds == {<<"AM43", "02:4d">>, <<"AM43", "02:69">>}

InitBus == allowList = <<>> /\ Boot

NextBus ==
  \/ \E d \in Deltas : Advance(d)
  \/ BusLost
  \/ \E ad \in BusAds : OnResult(ad[1], ad[2], TRUE)
  \/ OnResultInsert
  \/ OnResultStop
  \/ BleScanComplete
  \/ \E rid \in 1..MaxAlloc : NotifyFind(rid)
  \/ \E ev \in Telemetry, fault \in FaultOutcomes : NotifyHandle(ev, fault)
  \/ \E rid \in 1..MaxAlloc : SessionDisconnect(rid)
  \/ \E msg \in {NoMsg} \cup AnyDeviceMsgs, fault \in FaultOutcomes :
        SessionDisconnectLoop(msg, fault)
  \/ \E fault \in FaultOutcomes : SessionDisconnectClose(fault)
  \/ SessionDisconnectEnd
  \/ \E wifi \in BOOLEAN : LoopReconnect(TRUE, wifi)
  \/ ReconnectDone(TRUE)
  \/ GlobalAnnounce
  \/ \E msg \in {NoMsg} \cup GlobalMsgs : GlobalLoop(msg)
  \/ \E msg \in {NoMsg} \cup GlobalMsgs : LoopBus(msg)
  \/ RestartDisconnect
  \/ \E msg \in {NoMsg} \cup AnyDeviceMsgs, fault \in FaultOutcomes :
        RestartDisconnectLoop(msg, fault)
  \/ \E fault \in FaultOutcomes : RestartDisconnectClose(fault)
  \/ RestartDisconnectEnd
  \/ LoopNoTick("none")
  \/ LoopTick
  \/ IterConnect
  \/ \E ok \in BOOLEAN : ConnectDone(ok)
  \/ IterService
  \/ \E wifi \in BOOLEAN, msg \in {NoMsg} \cup AnyDeviceMsgs :
        HandleBegin(wifi, msg)
  \/ \E fault \in FaultOutcomes : BusConnectDone(TRUE, fault)
  \/ \E fault \in FaultOutcomes : BusAnnounce(fault)
  \/ \E msg \in {NoMsg} \cup AnyDeviceMsgs, fault \in FaultOutcomes :
        BusLoop(msg, fault)
  \/ IterRemove
  \/ RemoveTake
  \/ RemoveErase
  \/ TickEnd("none")
  \/ EspRestart

SpecBus == InitBus /\ [][NextBus]_vars

\* ------------------------------------------------------- scans and updates
\* The same program with updates offered and the network going down and
\* coming back, on a quiet bus: one device advertises, the allow list is
\* empty and the broker accepts.  Scan starts are set against update
\* windows here.
ScanAds == {<<"AM43", "02:69">>}

InitScan == allowList = <<>> /\ Boot

NextScan ==
  \/ \E d \in Deltas : Advance(d)
  \/ \E ad \in ScanAds : OnResult(ad[1], ad[2], TRUE)
  \/ OnResultInsert
  \/ OnResultStop
  \/ BleScanComplete
  \/ \E rid \in 1..MaxAlloc : SessionDisconnect(rid)
  \/ \E fault \in FaultOutcomes : SessionDisconnectLoop(NoMsg, fault)
  \/ \E fault \in FaultOutcomes : SessionDisconnectClose(fault)
  \/ SessionDisconnectEnd
  \/ \E ev \in WifiEvents : WiFiEvent(ev)
  \/ \E wifi \in BOOLEAN : LoopWifi(wifi)
  \/ SetupWifi
  \/ \E wifi1 \in BOOLEAN, wifi \in BOOLEAN : LoopReconnect(wifi1, wifi)
  \/ ReconnectDone(TRUE)
  \/ GlobalAnnounce
  \/ GlobalLoop(NoMsg)
  \/ LoopBus(NoMsg)
  \/ \E ota \in OtaEvents : LoopNoTick(ota)
  \/ LoopTick
  \/ IterConnect
  \/ \E ok \in BOOLEAN : ConnectDone(ok)
  \/ IterService
  \/ \E wifi \in BOOLEAN : HandleBegin(wifi, NoMsg)
  \/ \E fault \in FaultOutcomes : BusConnectDone(TRUE, fault)
  \/ \E fault \in FaultOutcomes : BusAnnounce(fault)
  \/ \E fault \in FaultOutcomes : BusLoop(NoMsg, fault)
  \/ IterRemove
  \/ RemoveTake
  \/ RemoveErase
  \/ \E ota \in OtaEvents : TickEnd(ota)

SpecScan == InitScan /\ [][NextScan]_vars

\* ------------------------------------------------------------------ timing
\* The same program on a finer clock, from boot up to TimeHorizon: the
\* first scan interval after boot passes in one stretch, the time after it
\* in steps of a quarter of a scan's duration.  One device advertises, the
\* network is up, the broker accepts and the bus is quiet.  Scan starts are
\* timed against this clock.
TimeStep == 2500
TimeStretch == 60001
TimeHorizon == 70000
TimeAds == {<<"AM43", "02:69">>}

InitTime == allowList = <<>> /\ Boot

TimeAdvance ==
  \/ millis = SetupDelay /\ Advance(TimeStretch)
  \/ /\ millis > ScanInterval
     /\ millis + TimeStep <= TimeHorizon
     /\ Advance(TimeStep)

NextTime ==
  \/ TimeAdvance
  \/ \E ad \in TimeAds : OnResult(ad[1], ad[2], TRUE)
  \/ OnResultInsert
  \/ OnResultStop
  \/ BleScanComplete
  \/ \E rid \in 1..MaxAlloc : SessionDisconnect(rid)
  \/ \E fault \in FaultOutcomes : SessionDisconnectLoop(NoMsg, fault)
  \/ \E fault \in FaultOutcomes : SessionDisconnectClose(fault)
  \/ SessionDisconnectEnd
  \/ LoopReconnect(TRUE, TRUE)
  \/ ReconnectDone(TRUE)
  \/ GlobalAnnounce
  \/ GlobalLoop(NoMsg)
  \/ LoopBus(NoMsg)
  \/ LoopNoTick("none")
  \/ LoopTick
  \/ IterConnect
  \/ \E ok \in BOOLEAN : ConnectDone(ok)
  \/ IterService
  \/ HandleBegin(TRUE, NoMsg)
  \/ \E fault \in FaultOutcomes : BusConnectDone(TRUE, fault)
  \/ \E fault \in FaultOutcomes : BusAnnounce(fault)
  \/ \E fault \in FaultOutcomes : BusLoop(NoMsg, fault)
  \/ IterRemove
  \/ RemoveTake
  \/ RemoveErase
  \/ TickEnd("none")

SpecTime == InitTime /\ [][NextTime]_vars

\* ---------------------------------------------------------------- the wrap
\* The same program around the wrap of millis(): after boot time passes in
\* one stretch of WrapStretch, which brings millis() to WrapFrom, a little
\* before its wrap, and from there in steps of half a backoff period up to
\* WrapHorizon.  One device advertises, the network is up or down, the
\* broker accepts or refuses and may go away, the bus is quiet.  Bus
\* connect attempts are timed against this clock.
\* How long before its wrap millis() is taken up.
WrapLead == 6000
WrapFrom == 0 - WrapLead
WrapStretch == WrapFrom - SetupDelay
WrapStep == 2500
WrapHorizon == 4000

WrapAdvance ==
  \/ millis = SetupDelay /\ Advance(WrapStretch)
  \/ /\ millis # SetupDelay
     /\ millis + WrapStep <= WrapHorizon
     /\ Advance(WrapStep)

NextWrap ==
  \/ WrapAdvance
  \/ BusLost
  \/ \E rid \in 1..MaxAlloc : SessionDisconnect(rid)
  \/ \E fault \in FaultOutcomes : SessionDisconnectLoop(NoMsg, fault)
  \/ \E fault \in FaultOutcomes : SessionDisconnectClose(fault)
  \/ SessionDisconnectEnd
  \/ \E ad \in TimeAds : OnResult(ad[1], ad[2], TRUE)
  \/ OnResultInsert
  \/ OnResultStop
  \/ BleScanComplete
  \/ \E wifi \in BOOLEAN : LoopReconnect(TRUE, wifi)
  \/ \E ok \in BOOLEAN : ReconnectDone(ok)
  \/ GlobalAnnounce
  \/ GlobalLoop(NoMsg)
  \/ LoopBus(NoMsg)
  \/ LoopNoTick("none")
  \/ LoopTick
  \/ IterConnect
  \/ \E ok \in BOOLEAN : ConnectDone(ok)
  \/ IterService
  \/ \E wifi \in BOOLEAN : HandleBegin(wifi, NoMsg)
  \/ \E ok \in BOOLEAN, fault \in FaultOutcomes : BusConnectDone(ok, fault)
  \/ \E fault \in FaultOutcomes : BusAnnounce(fault)
  \/ \E fault \in FaultOutcomes : BusLoop(NoMsg, fault)
  \/ IterRemove
  \/ RemoveTake
  \/ RemoveErase
  \/ TickEnd("none")

SpecWrap == InitTime /\ [][NextWrap]_vars

\* ---------------------------------------------------------------- fairness
\* The driver under fair scheduling, with a quiet and reachable bus and no
\* update window: loop() keeps running, time keeps passing, every scan
\* ends and every callback of the transport context returns.  Two devices
\* advertise; whether a connect succeeds is up to the device.
FairAds == {<<"AM43", "02:4d">>, <<"AM43", "02:69">>}

DriverStep ==
  \/ LoopReconnect(TRUE, TRUE)
  \/ ReconnectDone(TRUE)
  \/ GlobalAnnounce
  \/ GlobalLoop(NoMsg)
  \/ LoopBus(NoMsg)
  \/ LoopNoTick("none")
  \/ LoopTick
  \/ IterConnect
  \/ \E ok \in BOOLEAN : ConnectDone(ok)
  \/ IterService
  \/ HandleBegin(TRUE, NoMsg)
  \/ \E fault \in FaultOutcomes : BusConnectDone(TRUE, fault)
  \/ \E fault \in FaultOutcomes : BusAnnounce(fault)
  \/ \E fault \in FaultOutcomes : BusLoop(NoMsg, fault)
  \/ IterRemove
  \/ RemoveTake
  \/ RemoveErase
  \/ TickEnd("none")

TimePasses == \E d \in Deltas : Advance(d)

ScanStep == OnResultInsert \/ OnResultStop \/ BleScanComplete

TransportStep ==
  \/ \E fault \in FaultOutcomes : SessionDisconnectLoop(NoMsg, fault)
  \/ \E fault \in FaultOutcomes : SessionDisconnectClose(fault)
  \/ SessionDisconnectEnd

NextFair ==
  \/ TimePasses
  \/ \E ad \in FairAds : OnResult(ad[1], ad[2], TRUE)
  \/ ScanStep
  \/ \E rid \in 1..MaxAlloc : SessionDisconnect(rid)
  \/ TransportStep
  \/ DriverStep

SpecFair ==
  /\ InitTime
  /\ [][NextFair]_vars
  /\ WF_vars(DriverStep)
  /\ WF_vars(TimePasses)
  /\ WF_vars(ScanStep)
  /\ WF_vars(TransportStep)

\* ---------------------------------------------------------------- claims
\* The run of mqtt_callback the last step made, if any.
LastCb ==
  IF obs.op \in {"reconnect", "bus", "handle", "busLoop"} THEN obs.cb
  ELSE NoCb

\* The session calls a run of mqtt_callback made on heap cell rid.
CallsOn(cb, rid) == SelectSeq(cb.calls, LAMBDA x : x[1] = rid)

\* The heap cells a snapshot names.
CellsOf(cls) == {cls[i][2] : i \in 1..Len(cls)}

\* The device a record stands for: the address of its session.
DeviceOf(e) == heap[e[2]].addr

\* C1: the registry never holds two records for the same device, and a
\* discovery of a device that is already registered inserts nothing.
C1_OneRecordPerDevice ==
  /\ \A e1 \in allClients : \A e2 \in allClients :
        DeviceOf(e1) = DeviceOf(e2) => e1 = e2
  /\ obs.op = "onResult" =>
        ((\E e \in obs.before : DeviceOf(e) = obs.addr) => ~obs.inserted)

\* C2 as stated: a set to "all" with payload OPEN invokes open on exactly
\* the records that are Connected when it is dispatched.
C2_OpenOnConnectedOnly ==
  (/\ LastCb.ran
   /\ LastCb.topic = <<"am43", "/", "all", "/", "set">>
   /\ LastCb.payload = <<"O", "P", "E", "N">>)
  => \A rid \in CellsOf(LastCb.cls) :
       CallsOn(LastCb, rid) =
         IF LastCb.preHeap[rid].m_Connected THEN << <<rid, "open", 0>> >>
         ELSE <<>>

\* C2 as amended: a set to "all" with payload OPEN invokes open exactly once
\* on every record that is registered when it is dispatched, whatever its
\* connection state, and on nothing else.
C2_OpenOnEveryRecord ==
  (/\ LastCb.ran
   /\ LastCb.topic = <<"am43", "/", "all", "/", "set">>
   /\ LastCb.payload = <<"O", "P", "E", "N">>)
  => /\ \A rid \in CellsOf(LastCb.cls) :
          CallsOn(LastCb, rid) = << <<rid, "open", 0>> >>
     /\ Len(LastCb.calls) = Len(LastCb.cls)
     /\ CellsOf(LastCb.cls) = {e[2] : e \in allClients}

\* A dispatch of OPEN to "all" that finds a Connected record and a record
\* that is not Connected.
C2_Witness ==
  /\ LastCb.ran
  /\ LastCb.topic = <<"am43", "/", "all", "/", "set">>
  /\ LastCb.payload = <<"O", "P", "E", "N">>
  /\ \E r1 \in CellsOf(LastCb.cls) : \E r2 \in CellsOf(LastCb.cls) :
        heap[r1].m_Connected /\ ~heap[r2].m_Connected

\* The largest position of the claim's payloads.
MaxPosition == 100

\* The last step was the loop() of line 100, in the transport context or
\* in the restart branch.
LoopedLast == obs.op \in {"sessionDisconnectLoop", "restartDisconnectLoop"}

\* The session calls the disconnect path of the last step made on heap
\* cell rid, through the message its bus client still had waiting.
NestedCallsOn(rid) ==
  SelectSeq(CallsOfLog(obs.log), LAMBDA x : x[1] = rid)

\* C3: one message on <prefix>/<id>/set_position whose payload is the
\* decimal text of n invokes setPosition(n) exactly once on every record
\* of device <id> and no operation on any other registered record,
\* whether it comes in while the driver services the bus client or while
\* the disconnect path runs its loop().
C3_SetPositionRouted ==
  \A a \in Addrs : \A n \in 0..MaxPosition :
    /\ (/\ LastCb.ran
        /\ LastCb.topic = <<"am43", "/", a, "/", "set_position">>
        /\ LastCb.payload = DecString(n))
       => \A rid \in CellsOf(LastCb.cls) :
            CallsOn(LastCb, rid) =
              IF heap[rid].addr = a THEN << <<rid, "setPosition", n>> >>
              ELSE <<>>
    /\ (/\ LoopedLast
        /\ obs.msg.topic = <<"am43", "/", a, "/", "set_position">>
        /\ obs.msg.payload = DecString(n))
       => \A e \in allClients :
            NestedCallsOn(e[2]) =
              IF heap[e[2]].addr = a THEN << <<e[2], "setPosition", n>> >>
              ELSE <<>>

\* A set_position message for one device, dispatched while another device
\* is registered too.
C3_Witness ==
  /\ LastCb.ran
  /\ LastCb.topic = <<"am43", "/", "02:69", "/", "set_position">>
  /\ LastCb.payload = <<"3", "0">>
  /\ \E r1 \in CellsOf(LastCb.cls) : \E r2 \in CellsOf(LastCb.cls) :
        /\ heap[r1].addr = "02:69"
        /\ heap[r2].addr # "02:69"
        /\ CallsOn(LastCb, r1) = << <<r1, "setPosition", 30>> >>

\* The bus client onConnect has made for heap cell rid is connected.
BusUp(p, rid) == \E b \in DOMAIN p : p[b].owner = rid /\ p[b].connected

\* The retained offline publishes made for heap cell rid.
OfflineOf(p, rid) ==
  IF \E b \in DOMAIN p : p[b].owner = rid THEN p[BusOf(p, rid)].offline ELSE 0

\* C4: a message on <prefix>/restart, whatever its payload, takes the
\* restart branch, which runs the disconnect path on every registered
\* record in turn: a record whose bus client is connected at its turn
\* publishes available=offline and then has it disconnected (one whose bus
\* client is absent or down has nothing to publish, as the disconnect path
\* of section 4.2 has it), every record is left without a bus client, and
\* only then is the restart awaited, no record of the snapshot holding a
\* bus client or having one connected.
C4_RestartTearsDownAll ==
  /\ (LastCb.ran /\ LastCb.topic = <<"am43", "/", "restart">>)
     => /\ LastCb.restart
        /\ dcls = LastCb.cls
        /\ dpc = IF dcls = <<>> THEN "restart_delay" ELSE "restart_iter"
  /\ obs.op = "restartDisconnect"
     => LET rid == obs.rid
            b == obs.preHeap[rid].mqtt
        IN /\ obs.live = Live(obs.preHeap, obs.prePubsubs, rid)
           /\ obs.live => /\ pubsubs[b].offline = obs.prePubsubs[b].offline + 1
                          /\ pubsubs[b].connected
                          /\ pubsubs[b].disconnects = obs.prePubsubs[b].disconnects
                          /\ dpc = "restart_loop"
           /\ ~obs.live => pubsubs = obs.prePubsubs /\ heap[rid].mqtt = 0
  /\ obs.op = "restartDisconnectLoop"
     => ~obs.mqttNull /\ pubsubs = obs.prePubsubs
  /\ obs.op = "restartDisconnectClose"
     => /\ ~obs.mqttNull
        /\ ~pubsubs[obs.bus].connected
        /\ pubsubs[obs.bus].disconnects
             = obs.prePubsubs[obs.bus].disconnects + 1
        /\ pubsubs[obs.bus].offline = obs.prePubsubs[obs.bus].offline
  /\ obs.op = "restartDisconnectEnd" => heap[obs.rid].mqtt = 0
  /\ dpc = "restart_delay"
     => \A rid \in CellsOf(dcls) :
          heap[rid].mqtt = 0 /\ ~BusUp(pubsubs, rid)

\* The last step began a run of the disconnect path on a record.
DisconnectBegun == obs.op \in {"sessionDisconnect", "restartDisconnect"}

\* C5: running the disconnect path twice on a record, once on the
\* session's report and once from the restart branch, is the same as
\* running it once: no bus client ever publishes offline or is
\* disconnected twice, and a run on a record whose bus client has been
\* released makes no bus call.
C5_DisconnectIdempotent ==
  /\ \A b \in DOMAIN pubsubs :
        pubsubs[b].offline <= 1 /\ pubsubs[b].disconnects <= 1
  /\ (DisconnectBegun /\ obs.preHeap[obs.rid].mqtt = 0)
     => /\ ~obs.live
        /\ pubsubs = obs.prePubsubs
        /\ heap[obs.rid].mqtt = 0

\* Is address a an entry of the allow list?
Listed(a) == \E i \in DOMAIN allowList : allowList[i] = a

\* C6: with a non-empty allow list a discovery registers a record only for
\* a listed address, a discovery of an unlisted address leaves the registry
\* as it was, and a first discovery of a listed address inserts a record;
\* with an empty allow list a first discovery of any address inserts one.
C6_AllowList ==
  /\ allowList # <<>> => \A e \in allClients : Listed(DeviceOf(e))
  /\ obs.op = "onResult" =>
       /\ (obs.inserted /\ allowList # <<>>) => Listed(obs.addr)
       /\ (allowList # <<>> /\ ~Listed(obs.addr))
            => ~obs.inserted /\ allClients = obs.before
       /\ ((allowList = <<>> \/ Listed(obs.addr))
            /\ ~\E e \in obs.before : DeviceOf(e) = obs.addr)
            => /\ obs.inserted
               /\ \E e \in allClients \ obs.before : DeviceOf(e) = obs.addr
               /\ Cardinality(allClients) = Cardinality(obs.before) + 1

\* A discovery of an unlisted address, dropped while a listed device is
\* registered.
C6_Witness ==
  /\ obs.op = "onResult"
  /\ allowList # <<>>
  /\ ~Listed(obs.addr)
  /\ ~obs.inserted
  /\ allClients # {}

\* Is heap cell rid in the registry?
Registered(rid) == \E e \in allClients : e[2] = rid
\* onResult has allocated heap cell rid and is about to insert it.
BeingInserted(rid) == scanCb.pc = "insert" /\ scanCb.rid = rid

\* Where the driver is inside a call into a session or a bus client, or
\* between two such calls.
InCalls ==
  {"iter", "connecting", "handle", "bus_connecting", "bus_publish",
   "bus_sub_set", "bus_sub_position", "bus_loop", "iter_end", "bus",
   "reconnect", "global_connecting", "global_publish",
   "global_sub_restart", "global_sub_set", "global_sub_position",
   "global_loop", "restart_iter", "restart_loop", "restart_close",
   "restart_clear", "restart_delay"}

\* C8: the registry semaphore is held across steps only between the take
\* and the give around an erase; it is free whenever the driver is inside
\* connectToServer, polls a session or services a bus client, and whenever
\* the transport context is inside a publish or a loop(), so the other
\* contexts get it without waiting for those calls.
C8_LockOnlyAroundMapWork ==
  /\ clientListSem \in {"free", "driver"}
  /\ clientListSem = "driver" <=> dpc = "erase"
  /\ dpc \in InCalls => clientListSem = "free"

\* While the driver is blocked in the connect of one record, a notification
\* for another record has taken the semaphore and found its record.
C8_Witness ==
  /\ dpc = "connecting"
  /\ obs.op = "notifyFind"
  /\ obs.found
  /\ obs.rid # dcls[di][2]
  /\ clientListSem = "free"

\* C9: the client objects and the bus client made for a record do not
\* outlive its removal: every object still allocated belongs to a record
\* that is still registered, or that onResult is about to register.
C9_ReleasedOnRemoval ==
  /\ \A rid \in DOMAIN heap : Registered(rid) \/ BeingInserted(rid)
  /\ \A b \in DOMAIN pubsubs : Registered(pubsubs[b].owner)

\* C10: no variable is written by one context and read or written by
\* another without the registry semaphore held.
C10_OnlyRegistryShared == acc # Raced /\ ~Conflict(acc)

\* C11: when the iteration of a tick is over, every record of the tick's
\* snapshot that is Connected has been visited by it, and so was polled and
\* had its bus client serviced.  (A record beyond the iteration's position
\* that is Connected now was Connected when the tick began: only the connect
\* of the record at the position sets m_Connected during a tick.)
C11_ConnectedAllServiced ==
  dpc \in {"remove", "erase"} =>
    \A j \in 1..Len(dcls) :
      (j > di /\ Registered(dcls[j][2])) => ~heap[dcls[j][2]].m_Connected


\* C12: a record that was Disconnected when a tick began is no longer in
\* the registry when that tick ends, whatever the states of the other
\* records.
C12_DisconnectedRemoved ==
  obs.op = "tickEnd" => obs.left = {}


\* C13: within one tick at most one connectToServer call is made, so at
\* most one record moves from Discovered to Connecting, and the connect in
\* flight, if there is one, is that single call of the current tick.
C13_OneConnectPerTick ==
  /\ tickConnects <= 1
  /\ dpc = "connecting" => tickConnects = 1

\* A tick has made its connect attempt and left the iteration while a
\* later record of the snapshot is still due a connect.
C13_Witness ==
  /\ dpc = "remove"
  /\ tickConnects = 1
  /\ \E j \in 1..Len(dcls) :
       /\ j > di
       /\ Registered(dcls[j][2])
       /\ connectDue(heap[dcls[j][2]], scanning)


\* The last step was a pass of loop() in which line 414 started a scan.
ScanStarted == obs.op \in {"tickEnd", "noTick"} /\ obs.sc.started

\* C14: at the moment the driver starts a scan the scan-in-progress flag
\* `scanning` is false.
C14_ScanStartsWhenIdle ==
  ScanStarted => ~obs.sc.wasScanning


\* C15: no scan runs while a firmware-update window is active: the start
\* of the window stops the scan in progress, and a pass of loop() that
\* starts a scan is not inside a window (the window may open later in the
\* same pass, and then stops that scan too).
C15_NoScanDuringOta ==
  /\ otaUpdating => ~scanActive
  /\ (ScanStarted /\ obs.sc.ota # "start") => ~otaUpdating

\* An update window is open, the scan it stopped has left the scan flag
\* set, and the scan interval has passed again while the window is still
\* open.
C15_Witness ==
  /\ otaUpdating
  /\ scanning
  /\ less32(ScanInterval, Since(lastScan))
  /\ dpc = "top"


\* C16: between two consecutive scan starts by loop() at least ScanInterval
\* passes, whatever connects and disconnects happen in between.
C16_ScanCadence ==
  ScanStarted => obs.sc.sincePrev >= ScanInterval

\* C16, as the code has it: between two consecutive scan starts by loop()
\* at least ScanInterval passes unless a connect has succeeded since the
\* earlier one; onConnect makes the next scan due at once (line 93).
C16_CadenceUnlessConnected ==
  ScanStarted => (obs.sc.sincePrev >= ScanInterval \/ obs.sc.connected)

\* loop() has started a scan less than ScanInterval after its previous
\* scan start, a connect having succeeded in between.
C16_Witness ==
  /\ ScanStarted
  /\ obs.sc.connected
  /\ obs.sc.sincePrev < ScanInterval
  /\ obs.sc.sincePrev > 0


\* A pass of loop() comes to lines 384-385 and to the gate of line 306,
\* with the network up or down.
GlobalServiced(wifi) == LoopReconnect(TRUE, wifi)

\* That pass calls connect() on the global bus client.
GlobalAttempted == dpc' = "global_connecting"

\* At least MqttBackoff has passed since the last refused connect of the
\* global bus client (k = 0) or of the bus client of heap cell k, or none
\* has been refused.
BackoffOver(k) == sinceRefused[k] >= MqttBackoff

\* C17: on the global bus client and on each device's bus client, no
\* connect attempt is made before the time of the last failed attempt plus
\* MqttBackoff, and a servicing at or after that time, with the network up
\* and the client down, makes an attempt.
C17_Backoff ==
  [][/\ \A wifi \in BOOLEAN :
          GlobalServiced(wifi) =>
            /\ GlobalAttempted => BackoffOver(0)
            /\ (wifi /\ ~pubSubConnected /\ BackoffOver(0))
                 => GlobalAttempted
     /\ obs'.op = "handle" =>
          LET c == heap[obs'.rid]
          IN /\ obs'.tried => BackoffOver(obs'.rid)
             /\ (/\ obs'.wifi
                 /\ c.mqtt # 0
                 /\ ~pubsubs[c.mqtt].connected
                 /\ BackoffOver(obs'.rid)) => obs'.tried
    ]_vars


\* C18: when the session of a Connected record reports a disconnect,
\* available=offline is published for the device exactly when its bus
\* client is connected at that moment, the publish comes before the bus
\* client's disconnect (the loop() in between publishes and disconnects
\* nothing, and the disconnect finds the publish made), and when the
\* handler is through the record holds no bus client.
C18_OfflineOnSessionLoss ==
  /\ obs.op = "sessionDisconnect" =>
       LET rid == obs.rid
           b == obs.preHeap[rid].mqtt
       IN /\ obs.preHeap[rid].m_Connected
          /\ obs.live = Live(obs.preHeap, obs.prePubsubs, rid)
          /\ obs.live =>
               /\ pubsubs[b].offline = obs.prePubsubs[b].offline + 1
               /\ pubsubs[b].connected
               /\ pubsubs[b].disconnects = obs.prePubsubs[b].disconnects
               /\ discCb = rid
               /\ discPc = "loop"
          /\ ~obs.live => /\ pubsubs = obs.prePubsubs
                          /\ heap[rid].mqtt = 0
                          /\ discCb = 0
  /\ (obs.op = "sessionDisconnectLoop" /\ ~obs.mqttNull) =>
       /\ obs.log[1] = <<"loop", obs.rid>>
       /\ pubsubs = obs.prePubsubs
       /\ discCb = obs.rid
       /\ discPc = "disconnect"
  /\ (obs.op = "sessionDisconnectClose" /\ ~obs.mqttNull) =>
       /\ obs.prePubsubs[obs.bus].offline >= 1
       /\ pubsubs[obs.bus].offline = obs.prePubsubs[obs.bus].offline
       /\ pubsubs[obs.bus].disconnects
            = obs.prePubsubs[obs.bus].disconnects + 1
       /\ ~pubsubs[obs.bus].connected
       /\ discCb = obs.rid
       /\ discPc = "clear"
  /\ obs.op = "sessionDisconnectEnd" =>
       /\ heap[obs.rid].mqtt = 0
       /\ discCb = 0

\* A session's disconnect handler is through: it has published offline
\* once, its bus client has been disconnected once and is down, the record
\* holds no bus client, and another record's bus client stays connected.
C18_Witness ==
  /\ obs.op = "sessionDisconnectEnd"
  /\ heap[obs.rid].mqtt = 0
  /\ OfflineOf(pubsubs, obs.rid) = 1
  /\ pubsubs[BusOf(pubsubs, obs.rid)].disconnects = 1
  /\ ~BusUp(pubsubs, obs.rid)
  /\ \E r \in DOMAIN heap : r # obs.rid /\ Live(heap, pubsubs, r)


\* C19: a telemetry event is never handled for a record whose bus client
\* reference is absent: whenever notifyCallback finds the record and calls
\* its telemetry handler, the record's mqtt is set.
C19_TelemetryHasBusClient ==
  (obs.op = "notify" /\ obs.handled) => ~obs.mqttNull


\* onResult has just registered the record in heap cell rid.
JustRegistered(rid) ==
  /\ rid \in DOMAIN heap
  /\ Registered(rid)
  /\ obs.op = "onResult"
  /\ obs.inserted
  /\ toString(obs.name, obs.addr) = toString(heap[rid].m_Name, heap[rid].addr)

\* C20: every record registered by a discovery eventually gets a
\* connectToServer call or leaves the registry, as long as the program
\* runs.
C20_EventuallyAttempted ==
  \A rid \in 1..MaxAlloc :
    JustRegistered(rid)
      ~> \/ ~(rid \in DOMAIN heap /\ Registered(rid))
         \/ (dpc = "connecting" /\ dcls[di][2] = rid)
         \/ ~Alive

====
